---- MODULE Spec2Model ----
(***************************************************************************)
(* A model of the agentic-memory orchestrator: the state store             *)
(* (memory_items, memory_fts, tool_cache, runs), the Leverager, the        *)
(* Planner / Executor pair, the Manager, the Evaluator and the             *)
(* Orchestrator's runQuery state machine.                                  *)
(*                                                                         *)
(* Representation of strings.  A text is a sequence of runs                *)
(* [c |-> symbol, n |-> count]: symbol c repeated n times, adjacent runs   *)
(* holding different symbols.  A symbol is one character ("a", " ", ...)   *)
(* or a whole word ("sales"), whose length SymLen gives.  A PII value is   *)
(* one symbol ("bob@x.io"); redactPII rewrites it to the characters of its *)
(* replacement literal.  ISO timestamps are natural numbers (the order of  *)
(* the strings is the order of the instants).  Reals in 0..1 are integers  *)
(* in hundredths.                                                          *)
(***************************************************************************)
EXTENDS Integers, Sequences, FiniteSets, TLC

VARIABLES
  memory_items,   \* table memory_items: a set of rows
  memory_fts,     \* table memory_fts: a set of rows (id, text, kind, scope)
  tool_cache,     \* table tool_cache: a set of rows keyed by signature
  runs,           \* table runs: rows in insertion order
  clock,          \* the wall clock, new Date()
  ulids,          \* number of ids ulid() has handed out
  lastCall,       \* the last store call made and what it returned
  orch,           \* the IaOrchestrator built last on the store (None: none yet)
  runQuery,       \* the runQuery call in flight or returned last
  runScenario     \* the ScenarioRunner.runScenario call in flight or ended last

vars ==
  <<memory_items, memory_fts, tool_cache, runs, clock, ulids, lastCall, orch, runQuery,
    runScenario>>

(***************************************************************************)
(* Bounds of the model.                                                    *)
(***************************************************************************)
MaxClock == 1
MaxItems == 2
MaxUlids == 2
MaxUse == 1

(***************************************************************************)
(* Strings as runs of symbols.                                             *)
(***************************************************************************)
Run(c, n) == [c |-> c, n |-> n]

Str(c) == <<Run(c, 1)>>

\* The word symbols, by length.  A word symbol stands for its letters.
Words2 == {"to", "my"}
Words3 ==
  {"top", "why", "wow", "did", "for", "use", "run", "was", "low", "are", "the", "mon",
   "sun", "gmv", "cvr", "day", "Mon", "Sun", "Run", "imp"}
Words4 ==
  {"last", "week", "this", "drop", "what", "show", "rule", "tool", "case", "user",
   "demo", "with", "args", "call", "Last", "Tool", "rows", "rate", "data", "list",
   "Show", "CARD", "card", "used", "What", "were"}
Words5 ==
  {"sales", "units", "month", "those", "query", "weeks", "Weeks", "Query", "limit",
   "empty", "Empty", "daily"}
Words6 == {"domain", "global", "refers", "metric", "result", "visits", "MEMORY", "memory"}
Words11 == {"constructor"}
Words7 ==
  {"weather", "traffic", "pattern", "insight", "failure", "quality", "Failure",
   "missing", "Missing", "endDate", "revenue", "Revenue", "compute", "changes", "Signals",
   "signals"}
Words8 ==
  {"products", "template", "calendar", "previous", "tomorrow", "sessions", "insights",
   "Insights"}
Words9 == {"startDate", "presenter", "generator", "benchmark"}
Words10 == {"preference", "conversion", "timeseries"}
Words == Words2 \cup Words3 \cup Words4 \cup Words5 \cup Words6 \cup Words7
           \cup Words8 \cup Words9 \cup Words10 \cup Words11

\* Symbols that stand for a PII value or for a date.
EmailSyms == {"bob@x.io"}
PhoneSyms == {"5551234567"}
CardSyms == {"4111111111111111"}
DateSyms ==
  {"2024-12-01", "2024-12-31", "2025-01-01", "2025-01-06", "2025-01-12", "2025-01-13",
   "2025-01-15", "2025-01-19", "2025-01-31", "2026-01-01", "2026-01-26", "2026-01-31",
   "2026-02-01", "2026-02-02", "2026-02-04", "2026-02-08", "2026-02-28"}

\* String.length of one symbol.
SymLen(c) ==
  CASE c \in Words2 -> 2
    [] c \in Words3 -> 3
    [] c \in Words4 -> 4
    [] c \in Words5 -> 5
    [] c \in Words6 -> 6
    [] c \in Words7 -> 7
    [] c \in Words8 \cup EmailSyms -> 8
    [] c \in Words9 -> 9
    [] c \in Words10 \cup PhoneSyms \cup DateSyms -> 10
    [] c \in Words11 -> 11
    [] c = "T00:00:00.000Z" -> 14
    [] c \in CardSyms -> 16
    [] OTHER -> 1

\* \s of the regular expressions and of String.trim.
IsWs(c) == c \in {" ", "\n"}

LowerOf(c) ==
  CASE c = "A" -> "a" [] c = "B" -> "b" [] c = "C" -> "c" [] c = "D" -> "d"
    [] c = "E" -> "e" [] c = "H" -> "h" [] c = "I" -> "i" [] c = "L" -> "l"
    [] c = "M" -> "m" [] c = "N" -> "n" [] c = "O" -> "o" [] c = "P" -> "p"
    [] c = "R" -> "r" [] c = "T" -> "t" [] c = "X" -> "x"
    [] c = "Mon" -> "mon" [] c = "Sun" -> "sun" [] c = "Run" -> "run"
    [] c = "Last" -> "last" [] c = "Tool" -> "tool" [] c = "Weeks" -> "weeks"
    [] c = "Show" -> "show" [] c = "Revenue" -> "revenue" [] c = "What" -> "what"
    [] c = "Query" -> "query" [] c = "Empty" -> "empty" [] c = "Failure" -> "failure"
    [] c = "Missing" -> "missing" [] c = "Insights" -> "insights"
    [] c = "endDate" -> "enddate" [] c = "startDate" -> "startdate"
    [] c = "MEMORY" -> "memory" [] c = "CARD" -> "card" [] c = "Signals" -> "signals"
    [] c = "T00:00:00.000Z" -> "t00:00:00.000z"
    [] OTHER -> c

RunLower(r) ==
  IF "of" \in DOMAIN r THEN [r EXCEPT !.of = LowerOf(@)] ELSE [r EXCEPT !.c = LowerOf(@)]

\* Adjacent runs of one symbol are one run: the two halves of a text, joined.
CanonJoin(l, r) ==
  IF l[Len(l)].c = Head(r).c /\ Head(r).c # "~"
    THEN SubSeq(l, 1, Len(l) - 1) \o <<Run(Head(r).c, l[Len(l)].n + Head(r).n)>> \o Tail(r)
    ELSE l \o r

RECURSIVE Canon(_)
Canon(t) ==
  IF Len(t) <= 1 THEN t
  ELSE CanonJoin(Canon(SubSeq(t, 1, Len(t) \div 2)),
                 Canon(SubSeq(t, (Len(t) \div 2) + 1, Len(t))))

Concat(s, t) == Canon(s \o t)

\* The concatenation of a list of texts, by halves.
RECURSIVE Flatten(_)
Flatten(texts) ==
  IF texts = <<>> THEN <<>>
  ELSE IF Len(texts) = 1 THEN texts[1]
  ELSE Flatten(SubSeq(texts, 1, Len(texts) \div 2))
         \o Flatten(SubSeq(texts, (Len(texts) \div 2) + 1, Len(texts)))

RECURSIVE DigitsText(_)
\* String(n) of a natural number
DigitsText(n) ==
  LET d == <<"0", "1", "2", "3", "4", "5", "6", "7", "8", "9">>[(n % 10) + 1]
  IN IF n < 10 THEN Str(d) ELSE DigitsText(n \div 10) \o Str(d)

\* String.length, by halves.
RECURSIVE TextLen(_)
TextLen(t) ==
  IF t = <<>> THEN 0
  ELSE IF Len(t) = 1 THEN SymLen(t[1].c) * t[1].n
  ELSE TextLen(SubSeq(t, 1, Len(t) \div 2)) + TextLen(SubSeq(t, (Len(t) \div 2) + 1, Len(t)))

RECURSIVE TrimStart(_)
TrimStart(t) ==
  IF t = <<>> THEN t
  ELSE IF IsWs(Head(t).c) THEN TrimStart(Tail(t)) ELSE t

RECURSIVE TrimEnd(_)
TrimEnd(t) ==
  IF t = <<>> THEN t
  ELSE IF IsWs(t[Len(t)].c) THEN TrimEnd(SubSeq(t, 1, Len(t) - 1)) ELSE t

\* String.prototype.trim
Trim(t) == TrimEnd(TrimStart(t))

\* String.prototype.toLowerCase
ToLowerCase(t) == Canon([i \in DOMAIN t |-> RunLower(t[i])])

\* replaceAll(/\s+/g, " ")
CollapseWs(t) ==
  Flatten([i \in DOMAIN t |->
             IF ~IsWs(t[i].c) THEN <<t[i]>>
             ELSE IF i > 1 /\ IsWs(t[i - 1].c) THEN <<>>
             ELSE <<Run(" ", 1)>>])

\* slice(0, cap).  A cut inside a multi-character symbol keeps the run
\* [c |-> "~", n |-> k, of |-> symbol]: the first k characters of the symbol.
\* What slice keeps of the run h when cap characters are left for it.
SliceRun(h, w, cap) ==
  IF cap <= 0 THEN <<>>
  ELSE IF w * h.n <= cap THEN <<h>>
  ELSE (IF cap \div w > 0 THEN <<Run(h.c, cap \div w)>> ELSE <<>>)
       \o (IF cap % w > 0 THEN <<[c |-> "~", n |-> cap % w, of |-> h.c]>> ELSE <<>>)

Slice(t, cap) ==
  IF TextLen(t) <= cap THEN t
  ELSE Flatten([i \in DOMAIN t |->
                  SliceRun(t[i], SymLen(t[i].c), cap - TextLen(SubSeq(t, 1, i - 1)))])

(***************************************************************************)
(* util/redact.ts                                                          *)
(***************************************************************************)
RedactedEmail ==
  <<Run("[", 1), Run("R", 1), Run("E", 1), Run("D", 1), Run("A", 1), Run("C", 1),
    Run("T", 1), Run("E", 1), Run("D", 1), Run("_", 1), Run("E", 1), Run("M", 1),
    Run("A", 1), Run("I", 1), Run("L", 1), Run("]", 1)>>

RedactedPhone ==
  <<Run("[", 1), Run("R", 1), Run("E", 1), Run("D", 1), Run("A", 1), Run("C", 1),
    Run("T", 1), Run("E", 1), Run("D", 1), Run("_", 1), Run("P", 1), Run("H", 1),
    Run("O", 1), Run("N", 1), Run("E", 1), Run("]", 1)>>

RedactedCard ==
  <<Run("[", 1), Run("R", 1), Run("E", 1), Run("D", 1), Run("A", 1), Run("C", 1),
    Run("T", 1), Run("E", 1), Run("D", 1), Run("_", 1), Run("C", 1), Run("A", 1),
    Run("R", 1), Run("D", 1), Run("]", 1)>>

RECURSIVE Times(_, _)
Times(t, n) == IF n <= 0 THEN <<>> ELSE t \o Times(t, n - 1)

\* replaceAll(re, literal) for a pattern that matches exactly the symbols of syms.
ReplaceSyms(t, syms, lit) ==
  Flatten([i \in DOMAIN t |-> IF t[i].c \in syms THEN Times(lit, t[i].n) ELSE <<t[i]>>])

redactPII(t) ==
  Canon(ReplaceSyms(ReplaceSyms(ReplaceSyms(t, EmailSyms, RedactedEmail),
                                PhoneSyms, RedactedPhone),
                    CardSyms, RedactedCard))

(***************************************************************************)
(* Optional values: <<>> is undefined / null / SQL NULL, <<v>> is v.        *)
(***************************************************************************)
\* {} of JavaScript: the object without a key
EmptyObj == [k \in {} |-> k]

\* ulid(): the k-th id handed out
Ulid(k) == "ulid" \o ToString(k)

None == <<>>
Some(v) == <<v>>
OrElse(x, d) == IF x = <<>> THEN d ELSE x[1]

\* A JavaScript number in hundredths, or NaN.
Num(v) == [nan |-> FALSE, v |-> v]
NaN == [nan |-> TRUE, v |-> 0]

(***************************************************************************)
(* memory/types.ts                                                         *)
(***************************************************************************)
MemoryKind ==
  {"tool_template", "query_pattern", "domain_rule", "insight_pattern",
   "failure_case", "user_preference"}

(***************************************************************************)
(* memory/stateStore.ts                                                    *)
(***************************************************************************)
\* .slice(0, 2000) of dedupeKey
DedupeCap == 2000

NormalizeText(text) == Slice(CollapseWs(ToLowerCase(Trim(text))), DedupeCap)

\* sha256 is modelled as injective: the digest is its preimage.
dedupeKey(kind, text) == [kind |-> kind, norm |-> NormalizeText(text)]

clamp01(value) ==
  IF value.nan THEN 0
  ELSE IF value.v < 0 THEN 0
  ELSE IF value.v > 100 THEN 100
  ELSE value.v


\* SELECT id FROM memory_items WHERE scope=? AND kind=? AND dedupe_key=?
ExistingAnyScope(items, scope, kind, key) ==
  {r \in items : r.kind = kind /\ r.dedupe_key = key}

Existing(items, scope, kind, key) ==
  {r \in items : r.scope = scope /\ r.kind = kind /\ r.dedupe_key = key}

\* The MemoryItem that upsertMemoryItem builds (lines 152-165).
ItemOfInput(input, existingId, cleanedText, key, now, fresh) ==
  [id |-> OrElse(existingId, OrElse(input.id, fresh)),
   scope |-> input.scope,
   kind |-> input.kind,
   text |-> cleanedText,
   meta |-> OrElse(input.meta, EmptyObj),
   created_at |-> OrElse(input.createdAt, now),
   last_used_at |-> OrElse(input.lastUsedAt, now),
   use_count |-> OrElse(input.useCount, 0),
   importance |-> clamp01(OrElse(input.importance, Num(30))),
   quality |-> clamp01(OrElse(input.quality, Num(50))),
   expires_at |-> input.expiresAt,
   dedupe_key |-> key]

FtsRow(item) == [id |-> item.id, text |-> item.text, kind |-> item.kind, scope |-> item.scope]

\* UPDATE memory_items SET text, meta_json, last_used_at, use_count, importance,
\* quality, expires_at WHERE id=?   (created_at, scope, kind, dedupe_key stay)
UpdatedRow(r, item) ==
  [r EXCEPT !.text = item.text, !.meta = item.meta, !.last_used_at = item.last_used_at,
            !.use_count = item.use_count, !.importance = item.importance,
            !.quality = item.quality, !.expires_at = item.expires_at]

\* The update path without the DELETE FROM memory_fts of line 186
UpsertItemKeepingFts(items, fts, input, existing, item) ==
  LET usedUlid == existing = {} /\ input.id = None
      prevText == IF existing = {} THEN None ELSE Some((CHOOSE r \in existing : TRUE).text)
  IN IF existing # {}
       THEN [items |-> {IF r.id = item.id THEN UpdatedRow(r, item) ELSE r : r \in items},
             fts |-> fts \cup {FtsRow(item)},
             threw |-> FALSE, item |-> item, usedUlid |-> usedUlid, prevText |-> prevText]
       ELSE IF \E r \in items : r.id = item.id
         THEN [items |-> items, fts |-> fts, threw |-> TRUE, item |-> item,
               usedUlid |-> usedUlid, prevText |-> prevText]
         ELSE [items |-> items \cup {item},
               fts |-> fts \cup {FtsRow(item)},
               threw |-> FALSE, item |-> item, usedUlid |-> usedUlid, prevText |-> prevText]

\* The store after upsertMemoryItem(input): [items, fts, threw, item, usedUlid,
\* prevText], prevText being the text of the row the SELECT of line 148 found.
\* The INSERT throws on a primary-key conflict and leaves both tables alone.
\* The UPDATE of lines 167-194, or the INSERT of lines 196-222 and what it throws
UpsertItem(items, fts, input, existing, item) ==
  LET usedUlid == existing = {} /\ input.id = None
      prevText == IF existing = {} THEN None ELSE Some((CHOOSE r \in existing : TRUE).text)
  IN IF existing # {}
       THEN [items |-> {IF r.id = item.id THEN UpdatedRow(r, item) ELSE r : r \in items},
             fts |-> {f \in fts : f.id # item.id} \cup {FtsRow(item)},
             threw |-> FALSE, item |-> item, usedUlid |-> usedUlid, prevText |-> prevText]
       ELSE IF \E r \in items : r.id = item.id
         THEN [items |-> items, fts |-> fts, threw |-> TRUE, item |-> item,
               usedUlid |-> usedUlid, prevText |-> prevText]
         ELSE [items |-> items \cup {item},
               fts |-> fts \cup {FtsRow(item)},
               threw |-> FALSE, item |-> item, usedUlid |-> usedUlid, prevText |-> prevText]

\* lines 146-165: the row the statement finds, and the item built from the input
UpsertFound(items, fts, input, now, fresh, cleanedText, key, existing) ==
  UpsertItem(items, fts, input, existing,
             ItemOfInput(input,
                         IF existing = {} THEN None
                         ELSE Some((CHOOSE r \in existing : TRUE).id),
                         cleanedText, key, now, fresh))

\* lines 131-133: the dedupe key of the cleaned text
UpsertCleaned(items, fts, input, now, fresh, cleanedText, key) ==
  UpsertFound(items, fts, input, now, fresh, cleanedText, key,
              Existing(items, input.scope, input.kind, key))

UpsertKeyed(items, fts, input, now, fresh, cleanedText) ==
  UpsertCleaned(items, fts, input, now, fresh, cleanedText,
                OrElse(input.dedupeKey, dedupeKey(input.kind, cleanedText)))

UpsertResult(items, fts, input, now, fresh) ==
  UpsertKeyed(items, fts, input, now, fresh, redactPII(input.text))

\* An update that touches every row of the table.
MarkedUsedAll(items, ids, nowIso) ==
  {[r EXCEPT !.last_used_at = nowIso, !.use_count = @ + 1] : r \in items}

\* markMemoryUsed(ids, nowIso)
MarkedUsed(items, ids, nowIso) ==
  {IF r.id \in ids THEN [r EXCEPT !.last_used_at = nowIso, !.use_count = @ + 1] ELSE r
     : r \in items}

\* The rows whose expiry lies strictly before nowIso.
ExpiredRowsBefore(items, nowIso) ==
  {r \in items : r.expires_at # None /\ r.expires_at[1] < nowIso}

\* SELECT id FROM memory_items WHERE expires_at IS NOT NULL AND expires_at <= ?
ExpiredRows(items, nowIso) ==
  {r \in items : r.expires_at # None /\ r.expires_at[1] <= nowIso}

(***************************************************************************)
(* The full-text engine behind memory_fts.  Its tokenizer splits a column  *)
(* into maximal alphanumeric tokens and folds case; a MATCH expression is  *)
(* a list of phrases joined by OR (or by AND: the implicit operator of a   *)
(* bare query); a phrase matches a row when its tokens occur consecutively *)
(* in one of the indexed columns text, kind, scope.                        *)
(***************************************************************************)
LowerLetters ==
  {"a", "b", "c", "d", "e", "h", "i", "l", "m", "n", "o", "p", "r", "t", "x", "y", "z"}
UpperLetters ==
  {"A", "B", "C", "D", "E", "H", "I", "L", "M", "N", "O", "P", "R", "T", "X"}
Digits == {"0", "1", "2", "3", "4", "5", "6", "7", "8", "9"}

IsTokSym(c, mode) ==
  \/ c \in LowerLetters \cup Digits \cup {"~", "enddate", "startdate"}
  \/ c \in Words /\ (mode = "fts" \/ LowerOf(c) = c)
  \/ mode = "fts" /\ c \in UpperLetters
  \/ mode = "js" /\ c = "_"

\* The k-th member of a set of positions, in ascending order.
NthOf(positions, k) ==
  CHOOSE i \in positions : Cardinality({j \in positions : j < i}) = k - 1

\* The positions of t at which a maximal stretch of symbols passing the test starts.
StretchStarts(t, InWord(_)) ==
  {i \in DOMAIN t : InWord(t[i].c) /\ (i = 1 \/ ~InWord(t[i - 1].c))}

\* The least and the greatest of a set of positions.
Least(positions) == CHOOSE i \in positions : \A j \in positions : i <= j
Greatest(positions) == CHOOSE i \in positions : \A j \in positions : j <= i

\* The last position of the stretch that holds position a.
StretchEnd(t, InWord(_), a) ==
  Least({j \in a..Len(t) : j = Len(t) \/ ~InWord(t[j + 1].c)})

\* The first position of the stretch that holds position b.
StretchStart(t, InWord(_), b) ==
  Greatest({j \in 1..b : j = 1 \/ ~InWord(t[j - 1].c)})

\* The stretches that start at the given positions, in order.
Stretches(t, InWord(_), starts) ==
  [k \in 1..Cardinality(starts) |->
     SubSeq(t, NthOf(starts, k), StretchEnd(t, InWord, NthOf(starts, k)))]

\* The maximal stretches of token symbols of t.
TokScan(t, mode) ==
  LET InToken(c) == IsTokSym(c, mode)
  IN Stretches(t, InToken, StretchStarts(t, InToken))

FtsTokens(t) == LET toks == TokScan(t, "fts") IN [i \in DOMAIN toks |-> ToLowerCase(toks[i])]

KindText(kind) ==
  CASE kind = "tool_template" -> <<Run("tool", 1), Run("_", 1), Run("template", 1)>>
    [] kind = "query_pattern" -> <<Run("query", 1), Run("_", 1), Run("pattern", 1)>>
    [] kind = "domain_rule" -> <<Run("domain", 1), Run("_", 1), Run("rule", 1)>>
    [] kind = "insight_pattern" -> <<Run("insight", 1), Run("_", 1), Run("pattern", 1)>>
    [] kind = "failure_case" -> <<Run("failure", 1), Run("_", 1), Run("case", 1)>>
    [] kind = "user_preference" -> <<Run("user", 1), Run("_", 1), Run("preference", 1)>>

ScopeText(scope) ==
  IF scope = "global" THEN Str("global")
  ELSE IF scope = "user:u2" THEN <<Run("user", 1), Run(":", 1), Run("u", 1), Run("2", 1)>>
  ELSE <<Run("user", 1), Run(":", 1), Run("demo", 1)>>

PhraseIn(phrase, toks) ==
  \E i \in 1..Len(toks) :
    i + Len(phrase) - 1 <= Len(toks) /\ SubSeq(toks, i, i + Len(phrase) - 1) = phrase

FtsMatch(f, q) ==
  LET cols == {FtsTokens(f.text), FtsTokens(KindText(f.kind)), FtsTokens(ScopeText(f.scope))}
      hit(p) == \E col \in cols : PhraseIn(p, col)
  IN IF q.op = "OR" THEN \E i \in DOMAIN q.phrases : hit(q.phrases[i])
     ELSE q.phrases # <<>> /\ \A i \in DOMAIN q.phrases : hit(q.phrases[i])

Min(a, b) == IF a < b THEN a ELSE b
Max(a, b) == IF a > b THEN a ELSE b

SeqToSet(s) == {s[i] : i \in DOMAIN s}

\* All the orders of the members of a finite set.
RECURSIVE Perms(_)
Perms(S) ==
  IF S = {} THEN {<<>>}
  ELSE UNION {{<<x>> \o p : p \in Perms(S \ {x})} : x \in S}

\* The WHERE clause of searchMemory without the expiry condition.
SearchRowsNoExpiry(items, fts, opts) ==
  LET scopes == IF opts.scopes = <<>> THEN <<"global">> ELSE opts.scopes
  IN {mi \in items :
        /\ \E f \in fts : f.id = mi.id /\ FtsMatch(f, opts.query)
        /\ mi.scope \in SeqToSet(scopes)
        /\ (opts.kinds = <<>> \/ mi.kind \in SeqToSet(opts.kinds))}

\* The rows the SELECT of searchMemory joins and keeps (its WHERE clause).
SearchRows(items, fts, opts) ==
  LET scopes == IF opts.scopes = <<>> THEN <<"global">> ELSE opts.scopes
  IN {mi \in items :
        /\ \E f \in fts : f.id = mi.id /\ FtsMatch(f, opts.query)
        /\ (mi.expires_at = None \/ mi.expires_at[1] > opts.nowIso)
        /\ mi.scope \in SeqToSet(scopes)
        /\ (opts.kinds = <<>> \/ mi.kind \in SeqToSet(opts.kinds))}

SearchLimit(opts) == Max(1, Min(50, OrElse(opts.limit, 20)))

\* What searchMemory may return: the kept rows ORDER BY bm25 LIMIT limit.  The
\* engine's bm25 is not computed: every order of every limit-sized choice is allowed.
SearchResults(items, fts, opts) ==
  LET rows == SearchRows(items, fts, opts)
      n == Min(SearchLimit(opts), Cardinality(rows))
  IN UNION {Perms(S) : S \in {T \in SUBSET rows : Cardinality(T) = n}}

(***************************************************************************)
(* The store's public operations, called directly.                         *)
(***************************************************************************)
\* "Ab  c"
TxtA == <<Run("A", 1), Run("b", 1), Run(" ", 2), Run("c", 1)>>
\* " ab c\n"
TxtA2 == <<Run(" ", 1), Run("a", 1), Run("b", 1), Run(" ", 1), Run("c", 1), Run("\n", 1)>>
\* "bob@x.io " followed by 2000 x and a y
TxtLongY == <<Run("bob@x.io", 1), Run(" ", 1), Run("x", 2000), Run("y", 1)>>
\* "[REDACTED_EMAIL] " followed by 2000 X and a z
TxtLongZ == RedactedEmail \o <<Run(" ", 1), Run("X", 2000), Run("z", 1)>>

StoreTexts == {TxtA, TxtA2, TxtLongY, TxtLongZ}

DefaultInput ==
  [id |-> None, scope |-> "global", kind |-> "domain_rule", text |-> TxtA, meta |-> None,
   createdAt |-> None, lastUsedAt |-> None, useCount |-> None, importance |-> None,
   quality |-> None, expiresAt |-> None, dedupeKey |-> None]

StoreInputs ==
  {[DefaultInput EXCEPT !.text = text] : text \in StoreTexts}
  \cup {[DefaultInput EXCEPT !.scope = sk[1], !.kind = sk[2]]
          : sk \in {<<"user:demo", "domain_rule">>, <<"global", "query_pattern">>}}
  \cup {[DefaultInput EXCEPT !.id = Some("idA"), !.text = text, !.expiresAt = Some(1)]
          : text \in {TxtA2, TxtLongZ}}
  \cup {[DefaultInput EXCEPT !.useCount = Some(1), !.importance = Some(Num(150)),
                             !.quality = Some(NaN), !.meta = Some([source |-> "default"]),
                             !.createdAt = Some(0), !.lastUsedAt = Some(0)],
        [DefaultInput EXCEPT !.text = TxtLongY,
                             !.dedupeKey = Some(dedupeKey("domain_rule", TxtA))]}

\* MATCH expressions: a OR "ab c", x~ (a token no row holds), rule
UpsertReturned(input, res) ==
  /\ res.usedUlid => ulids < MaxUlids
  /\ res.threw \/ Cardinality(res.items) <= MaxItems
  /\ memory_items' = res.items
  /\ memory_fts' = res.fts
  /\ ulids' = IF res.usedUlid THEN ulids + 1 ELSE ulids
  /\ lastCall' = [op |-> "upsertMemoryItem", threw |-> res.threw, id |-> res.item.id,
                  scope |-> input.scope, kind |-> input.kind,
                  dedupeKey |-> res.item.dedupe_key, text |-> input.text,
                  prevText |-> res.prevText]

UpsertMemoryItem(input) ==
  /\ UpsertReturned(input,
                    UpsertResult(memory_items, memory_fts, input, clock, Ulid(ulids + 1)))
  /\ UNCHANGED <<orch, runQuery, tool_cache, runs, clock, runScenario>>

MarkMemoryUsed(ids, nowIso) ==
  /\ \A r \in memory_items : r.id \in ids => r.use_count < MaxUse
  /\ memory_items' = MarkedUsed(memory_items, ids, nowIso)
  /\ lastCall' = [op |-> "markMemoryUsed", threw |-> FALSE, ids |-> ids, nowIso |-> nowIso]
  /\ UNCHANGED <<orch, runQuery, memory_fts, tool_cache, runs, clock, ulids, runScenario>>

Maintenance(nowIso) ==
  LET expired == ExpiredRows(memory_items, nowIso)
  IN /\ memory_items' = memory_items \ expired
     /\ memory_fts' = {f \in memory_fts : f.id \notin {r.id : r \in expired}}
     /\ lastCall' = [op |-> "maintenance", threw |-> FALSE, nowIso |-> nowIso,
                     expired |-> Cardinality(expired)]
     /\ UNCHANGED <<orch, runQuery, tool_cache, runs, clock, ulids, runScenario>>

SearchMemory(opts) ==
  LET o == [opts EXCEPT !.nowIso = Some(OrElse(opts.nowIso, clock))]
  IN /\ \E hits \in SearchResults(memory_items, memory_fts,
                                  [o EXCEPT !.nowIso = o.nowIso[1]]) :
          lastCall' = [op |-> "searchMemory", threw |-> FALSE, opts |-> opts,
                       nowIso |-> o.nowIso[1],
                       hits |-> [i \in DOMAIN hits |-> hits[i].id]]
     /\ UNCHANGED <<orch, runQuery, memory_items, memory_fts, tool_cache, runs, clock, ulids, runScenario>>

Tick ==
  /\ clock < MaxClock
  /\ clock' = clock + 1
  /\ UNCHANGED <<orch, runQuery, lastCall, memory_items, memory_fts, tool_cache, runs, ulids, runScenario>>

StoreInit ==
  /\ memory_items = {}
  /\ memory_fts = {}
  /\ tool_cache = {}
  /\ runs = <<>>
  /\ clock = 0
  /\ ulids = 0
  /\ lastCall = [op |-> "open", threw |-> FALSE]
  /\ orch = None
  /\ runQuery = [pc |-> "idle", n |-> 0]
  /\ runScenario = [pc |-> "idle"]

StoreNext ==
  \/ \E input \in StoreInputs : UpsertMemoryItem(input)
  \/ \E ids \in SUBSET {r.id : r \in memory_items}, t \in 0..MaxClock :
       ids # {} /\ MarkMemoryUsed(ids, t)
  \/ \E t \in 0..MaxClock : Maintenance(t)

SpecStore == StoreInit /\ [][StoreNext]_vars

(***************************************************************************)
(* searchMemory over stores that hold expiring items.                      *)
(***************************************************************************)
\* MATCH expressions: c OR "ab c"; rule (found in the kind column only).
QueryAbC == [op |-> "OR", phrases |-> <<<<Str("c")>>, <<<<Run("a", 1), Run("b", 1)>>, Str("c")>>>>]
QueryRule == [op |-> "AND", phrases |-> <<<<Str("rule")>>>>]

SearchInputs ==
  {[DefaultInput EXCEPT !.expiresAt = e] : e \in {None} \cup {Some(t) : t \in 0..(MaxClock + 1)}}
  \cup {[DefaultInput EXCEPT !.scope = "user:demo", !.text = TxtA2, !.expiresAt = Some(MaxClock)],
        [DefaultInput EXCEPT !.kind = "query_pattern", !.expiresAt = Some(MaxClock)]}

DefaultSearch ==
  [query |-> QueryAbC, scopes |-> <<>>, kinds |-> <<>>, limit |-> None, nowIso |-> None]

SearchOpts ==
  {[DefaultSearch EXCEPT !.query = q, !.nowIso = t]
     : q \in {QueryAbC, QueryRule}, t \in {None} \cup {Some(t) : t \in 0..MaxClock}}
  \cup {[DefaultSearch EXCEPT !.scopes = <<"global", "user:demo">>, !.nowIso = Some(0)],
        [DefaultSearch EXCEPT !.kinds = <<"domain_rule">>, !.nowIso = Some(0)],
        [DefaultSearch EXCEPT !.limit = Some(1), !.nowIso = Some(0)]}

SearchNext ==
  \/ \E input \in SearchInputs : UpsertMemoryItem(input)
  \/ \E t \in 0..MaxClock : Maintenance(t)
  \/ \E opts \in SearchOpts : SearchMemory(opts)
  \/ Tick

SpecSearch == StoreInit /\ [][SearchNext]_vars

(***************************************************************************)
(* JavaScript values as JSON.parse produces them and as zod reads them.    *)
(* An absent property (undefined) is the absence of the key.               *)
(***************************************************************************)
JStr(text) == [t |-> "str", s |-> text]
JNum(n) == [t |-> "num", n |-> n, int |-> TRUE]
\* A number strictly between n and n + 1.
JFrac(n) == [t |-> "num", n |-> n, int |-> FALSE]
JNull == [t |-> "null"]
JArr(a) == [t |-> "arr", a |-> a]
JObj(o) == [t |-> "obj", o |-> o]

\* o[k] of an object value, as an option.
Get(v, k) == IF v.t = "obj" /\ k \in DOMAIN v.o THEN Some(v.o[k]) ELSE None

\* x == null of JavaScript: undefined or null.
IsNullish(x) == x = None \/ x[1].t = "null"

\* { ...f, ...g } restricted to what is present
Merge(f, g) == [k \in (DOMAIN f) \cup (DOMAIN g) |-> IF k \in DOMAIN f THEN f[k] ELSE g[k]]

\* { [k]: x } when the option x holds a value, {} otherwise
Field(k, x) == IF x = None THEN EmptyObj ELSE [j \in {k} |-> x[1]]

(***************************************************************************)
(* tools/registry.ts: the argument schemas.  A schema is an operator from  *)
(* an optional value to an optional value: None is a failed safeParse,     *)
(* Some(v) the parsed data.                                                *)
(***************************************************************************)
ToolNames == {"list_products", "top_products", "timeseries", "benchmark", "compute_changes"}

DigitVal(c) ==
  CASE c = "0" -> 0 [] c = "1" -> 1 [] c = "2" -> 2 [] c = "3" -> 3 [] c = "4" -> 4
    [] c = "5" -> 5 [] c = "6" -> 6 [] c = "7" -> 7 [] c = "8" -> 8 [] c = "9" -> 9

RECURSIVE RepeatDigit(_, _, _)
RepeatDigit(acc, d, n) == IF n = 0 THEN acc ELSE RepeatDigit(acc * 10 + d, d, n - 1)

\* The value of the leading decimal digits of a text, None when it has none.
RECURSIVE LeadingInt(_, _)
LeadingInt(text, acc) ==
  IF text # <<>> /\ Head(text).c \in Digits
    THEN LeadingInt(Tail(text), Some(RepeatDigit(OrElse(acc, 0), DigitVal(Head(text).c), Head(text).n)))
    ELSE acc

\* Number.parseInt(s, 10) of an unsigned text; None is NaN.
ParseInt(text) == LeadingInt(TrimStart(text), None)

normalizeIntInput(v) ==
  IF v.t # "str" THEN v
  ELSE LET s == Trim(v.s)
           n == ParseInt(s)
       IN IF s = <<>> \/ n = None THEN v ELSE JNum(n[1])

\* z.preprocess(normalizeIntInput, z.number().int().min(lo).max(hi))
IntSchema(x, lo, hi) ==
  IF x = None THEN None
  ELSE LET v == normalizeIntInput(x[1])
       IN IF v.t = "num" /\ v.int /\ v.n >= lo /\ v.n <= hi THEN Some(v) ELSE None

\* /^\d{4}-\d{2}-\d{2}$/ on a text
IsIsoDate(text) == Len(text) = 1 /\ text[1].c \in DateSyms /\ text[1].n = 1

IsoDateSchema(x) ==
  IF x = None \/ x[1].t # "str" THEN None
  ELSE LET s == Trim(x[1].s)
           d == IF TextLen(s) >= 10 THEN Slice(s, 10) ELSE s
       IN IF IsIsoDate(d) THEN Some(JStr(d)) ELSE None

normalizeMetricInput(v) ==
  IF v.t # "str" THEN v
  ELSE LET s == ToLowerCase(Trim(v.s))
       IN IF s \in {Str("revenue"), Str("gmv")} THEN JStr(Str("sales"))
          ELSE IF s \in {Str("traffic"), Str("visits")} THEN JStr(Str("sessions"))
          ELSE IF s \in {Str("conversion"), Str("cvr")}
                 THEN JStr(<<Run("conversion", 1), Run("_", 1), Run("rate", 1)>>)
          ELSE JStr(s)

Metrics ==
  {Str("sales"), Str("units"), Str("sessions"),
   <<Run("conversion", 1), Run("_", 1), Run("rate", 1)>>}

\* z.preprocess(normalizeMetricInput, MetricSchema)
MetricCoercedSchema(x) ==
  IF x = None THEN None
  ELSE LET v == normalizeMetricInput(x[1])
       IN IF v.t = "str" /\ v.s \in Metrics THEN Some(v) ELSE None

StringSchema(x) == IF x # None /\ x[1].t = "str" THEN x ELSE None

\* o[k] after "if (o[k] == null && o[alias] != null) o[k] = o[alias]"
Aliased(v, k, alias) ==
  IF IsNullish(Get(v, k)) /\ ~IsNullish(Get(v, alias)) THEN Get(v, alias) ELSE Get(v, k)

\* z.object({...}) of required fields: all parsed, or a failure
AllOrNone(fields) ==
  IF \E k \in DOMAIN fields : fields[k] = None THEN None
  ELSE Some(JObj([k \in DOMAIN fields |-> fields[k][1]]))

IsObject(x) == x # None /\ x[1].t = "obj"

\* z.literal("day") after the alias daily -> day of the timeseries preprocess
GrainSchema(x) ==
  IF x = None \/ x[1].t # "str" THEN None
  ELSE IF x[1].s \in {Str("day"), Str("daily")} THEN Some(JStr(Str("day"))) ELSE None

\* z.array(z.string()).min(1) after "if (typeof o.productIds === 'string') ..."
ProductIdsSchema(x) ==
  IF x = None THEN None
  ELSE IF x[1].t = "str" THEN Some(JArr(<<x[1]>>))
  ELSE IF x[1].t = "arr" /\ Len(x[1].a) >= 1 /\ \A i \in DOMAIN x[1].a : x[1].a[i].t = "str"
         THEN x
  ELSE None

\* z.object({ date: IsoDateSchema, value: z.number() })
PointSchema(p) ==
  IF p.t # "obj" THEN None
  ELSE AllOrNone([date |-> IsoDateSchema(Get(p, "date")),
                  value |-> IF Get(p, "value") # None /\ Get(p, "value")[1].t = "num"
                              THEN Get(p, "value") ELSE None])

\* z.array(PointSchema).min(2)
PointsSchema(x) ==
  IF x = None \/ x[1].t # "arr" \/ Len(x[1].a) < 2 THEN None
  ELSE IF \E i \in DOMAIN x[1].a : PointSchema(x[1].a[i]) = None THEN None
  ELSE Some(JArr([i \in DOMAIN x[1].a |-> PointSchema(x[1].a[i])[1]]))

list_productsArgs(x) ==
  IF ~IsObject(x) THEN None
  ELSE LET category == Get(x[1], "category")
           limit == Get(x[1], "limit")
       IN IF category # None /\ category[1].t # "str" THEN None
          ELSE IF limit # None /\ IntSchema(limit, 1, 500) = None THEN None
          ELSE Some(JObj(Merge(Field("category", category),
                               Field("limit", IntSchema(limit, 1, 500)))))

top_productsArgs(x) ==
  IF ~IsObject(x) THEN None
  ELSE LET o == x[1]
           limitN == Aliased(o, "limit", "n")
           limit == IF IsNullish(limitN) /\ ~IsNullish(Get(o, "topN")) THEN Get(o, "topN")
                    ELSE limitN
       IN AllOrNone([metric |-> MetricCoercedSchema(Get(o, "metric")),
                     startDate |-> IsoDateSchema(Aliased(o, "startDate", "start_date")),
                     endDate |-> IsoDateSchema(Aliased(o, "endDate", "end_date")),
                     limit |-> IntSchema(limit, 1, 100)])

timeseriesArgs(x) ==
  IF ~IsObject(x) THEN None
  ELSE LET o == x[1]
       IN AllOrNone([metric |-> MetricCoercedSchema(Get(o, "metric")),
                     productIds |-> ProductIdsSchema(Aliased(o, "productIds", "product_ids")),
                     startDate |-> IsoDateSchema(Aliased(o, "startDate", "start_date")),
                     endDate |-> IsoDateSchema(Aliased(o, "endDate", "end_date")),
                     grain |-> GrainSchema(Get(o, "grain"))])

benchmarkArgs(x) ==
  IF ~IsObject(x) THEN None
  ELSE LET o == x[1]
       IN AllOrNone([metric |-> MetricCoercedSchema(Get(o, "metric")),
                     category |-> StringSchema(Get(o, "category")),
                     startDate |-> IsoDateSchema(Aliased(o, "startDate", "start_date")),
                     endDate |-> IsoDateSchema(Aliased(o, "endDate", "end_date"))])

compute_changesArgs(x) ==
  IF ~IsObject(x) THEN None
  ELSE AllOrNone([points |-> PointsSchema(Get(x[1], "points"))])

\* toolRegistry[tool].argsSchema.safeParse(x)
ArgsSchema(tool, x) ==
  CASE tool = "list_products" -> list_productsArgs(x)
    [] tool = "top_products" -> top_productsArgs(x)
    [] tool = "timeseries" -> timeseriesArgs(x)
    [] tool = "benchmark" -> benchmarkArgs(x)
    [] tool = "compute_changes" -> compute_changesArgs(x)

(***************************************************************************)
(* agents/types.ts and agents/workflowPlanner.ts                           *)
(***************************************************************************)
Routes == {"data_presenter", "insight_generator"}

RouteText(route) ==
  IF route = "data_presenter" THEN <<Run("data", 1), Run("_", 1), Run("presenter", 1)>>
  ELSE <<Run("insight", 1), Run("_", 1), Run("generator", 1)>>

ToolText(tool) ==
  CASE tool = "list_products" -> <<Run("list", 1), Run("_", 1), Run("products", 1)>>
    [] tool = "top_products" -> <<Run("top", 1), Run("_", 1), Run("products", 1)>>
    [] tool = "timeseries" -> Str("timeseries")
    [] tool = "benchmark" -> Str("benchmark")
    [] tool = "compute_changes" -> <<Run("compute", 1), Run("_", 1), Run("changes", 1)>>

\* Property names every object inherits from Object.prototype.
InheritedNames == {Str("constructor")}

\* (toolRegistry as any)[toolName]: a tool definition, an inherited property
\* (truthy, without argsSchema) or undefined.
RegistryLookup(toolText) ==
  IF \E n \in ToolNames : ToolText(n) = toolText
    THEN [kind |-> "tool", name |-> CHOOSE n \in ToolNames : ToolText(n) = toolText]
  ELSE IF toolText \in InheritedNames THEN [kind |-> "inherited"]
  ELSE [kind |-> "undefined"]

\* z.string().regex(/^\d{4}-\d{2}-\d{2}$/)
DateStringSchema(x) == IF x # None /\ x[1].t = "str" /\ IsIsoDate(x[1].s) THEN x ELSE None

\* timeRange: z.object({ startDate, endDate }).optional()
TimeRangeSchema(x) ==
  IF ~IsObject(x) THEN None
  ELSE LET startDate == DateStringSchema(Get(x[1], "startDate"))
           endDate == DateStringSchema(Get(x[1], "endDate"))
       IN IF startDate = None \/ endDate = None THEN None
          ELSE Some([startDate |-> startDate[1].s, endDate |-> endDate[1].s])

\* PlanStepSchema: tool is any string, args is unknown
PlanStepSchema(v) ==
  IF v.t # "obj" \/ Get(v, "tool") = None \/ Get(v, "tool")[1].t # "str" THEN None
  ELSE Some([tool |-> Get(v, "tool")[1].s, args |-> Get(v, "args")])

\* WorkflowPlanSchema.safeParse(value): None on failure, Some(plan) otherwise.
WorkflowPlanSchema(x) ==
  IF ~IsObject(x) THEN None
  ELSE LET o == x[1]
           route == Get(o, "route")
           timeRange == Get(o, "timeRange")
           steps == Get(o, "steps")
           notes == Get(o, "notes")
       IN IF route = None \/ route[1].t # "str"
               \/ ~\E r \in Routes : RouteText(r) = route[1].s THEN None
          ELSE IF timeRange # None /\ TimeRangeSchema(timeRange) = None THEN None
          ELSE IF steps = None \/ steps[1].t # "arr" \/ Len(steps[1].a) < 1 THEN None
          ELSE IF \E i \in DOMAIN steps[1].a : PlanStepSchema(steps[1].a[i]) = None THEN None
          ELSE IF notes # None /\ notes[1].t # "str" THEN None
          ELSE Some([route |-> CHOOSE r \in Routes : RouteText(r) = route[1].s,
                     timeRange |-> IF timeRange = None THEN None
                                   ELSE Some(TimeRangeSchema(timeRange)[1]),
                     steps |-> [i \in DOMAIN steps[1].a |-> PlanStepSchema(steps[1].a[i])[1]],
                     notes |-> IF notes = None THEN None ELSE Some(notes[1].s)])

\* The loop of parsePlan over the steps of a schema-valid plan, from step i:
\* "ok" with the coerced steps, "fail" (return ok:false) or "throw" (TypeError).
RECURSIVE ValidateSteps(_, _)
\* "if (!argsResult.success) return { ok: false }; step.args = argsResult.data"
ValidateArgs(steps, i, argsResult) ==
  IF argsResult = None THEN [kind |-> "fail"]
  ELSE ValidateSteps([steps EXCEPT ![i].args = argsResult], i + 1)

\* "const def = toolRegistry[toolName]; if (!def) return { ok: false }"
ValidateTool(steps, i, def) ==
  IF def.kind = "undefined" THEN [kind |-> "fail"]
  ELSE IF def.kind = "inherited" THEN [kind |-> "throw"]
  ELSE ValidateArgs(steps, i, ArgsSchema(def.name, steps[i].args))

ValidateSteps(steps, i) ==
  IF i > Len(steps) THEN [kind |-> "ok", steps |-> steps]
  ELSE ValidateTool(steps, i, RegistryLookup(steps[i].tool))

(***************************************************************************)
(* The text an LLM returns, as the scanner of extractJsonObjectCandidates  *)
(* reads it: a sequence of pieces.                                         *)
(*   [k |-> "prose"]            characters other than braces and quotes    *)
(*   [k |-> "quote", q |-> c]   one quote character, " or '                *)
(*   [k |-> "open"], [k |-> "close"]   one brace                           *)
(*   [k |-> "members", v |-> x, comma |-> b]   what stands between the     *)
(*        braces of an object: text that JSON.parse reads, with the braces *)
(*        around it, as the value x (None: text that is not JSON); its     *)
(*        quotes and inner braces are balanced; b: a comma ends it.        *)
(***************************************************************************)
Prose == [k |-> "prose"]
Quote(c) == [k |-> "quote", q |-> c]
Open == [k |-> "open"]
Close == [k |-> "close"]
Members(x, b) == [k |-> "members", v |-> x, comma |-> b]

\* The text of an object that JSON.parse reads as value v.
ObjText(v) == <<Open, Members(Some(v), FALSE), Close>>

\* The scanner of extractJsonObjectCandidates from piece i on.
RECURSIVE ScanCandidates(_, _, _, _, _, _)
ScanCandidates(text, i, depth, start, quote, out) ==
  IF i > Len(text) THEN out
  ELSE LET p == text[i]
       IN IF quote # None
            THEN ScanCandidates(text, i + 1, depth, start,
                                IF p.k = "quote" /\ p.q = quote[1] THEN None ELSE quote, out)
          ELSE IF p.k = "quote" THEN ScanCandidates(text, i + 1, depth, start, Some(p.q), out)
          ELSE IF p.k = "open"
                 THEN ScanCandidates(text, i + 1, depth + 1, IF depth = 0 THEN i ELSE start,
                                     quote, out)
          ELSE IF p.k = "close"
                 THEN LET d == IF depth > 0 THEN depth - 1 ELSE depth
                      IN IF d = 0 /\ start >= 1
                           THEN ScanCandidates(text, i + 1, d, 0, quote,
                                               Append(out, SubSeq(text, start, i)))
                           ELSE ScanCandidates(text, i + 1, d, start, quote, out)
          ELSE ScanCandidates(text, i + 1, depth, start, quote, out)

extractJsonObjectCandidates(text) == ScanCandidates(text, 1, 0, 0, None, <<>>)

\* json.replace(/,\s*([}\]])/g, "$1")
stripTrailingCommas(candidate) ==
  [i \in DOMAIN candidate |->
     IF candidate[i].k = "members" THEN [candidate[i] EXCEPT !.comma = FALSE]
     ELSE candidate[i]]

\* safeJsonParse(candidate): None when JSON.parse throws.
safeJsonParse(candidate) ==
  IF candidate = <<Open, Close>> THEN Some(JObj(EmptyObj))
  ELSE IF Len(candidate) = 3 /\ candidate[1] = Open /\ candidate[3] = Close
            /\ candidate[2].k = "members" /\ ~candidate[2].comma /\ candidate[2].v # None
         THEN candidate[2].v
  ELSE None

\* The loop of parsePlan over the candidates, from candidate i.
RECURSIVE ParseCandidates(_, _)
\* "return { ok: true, plan: validated.data }" once every step has passed
CheckedPlan(validated, checked) ==
  IF checked.kind = "ok"
    THEN [kind |-> "ok", plan |-> [validated EXCEPT !.steps = checked.steps]]
    ELSE checked

\* "if (!validated.success) continue" and the loop over the steps
ParseValidated(candidates, i, validated) ==
  IF validated = None THEN ParseCandidates(candidates, i + 1)
  ELSE CheckedPlan(validated[1], ValidateSteps(validated[1].steps, 1))

ParseCandidates(candidates, i) ==
  IF i > Len(candidates) THEN [kind |-> "fail"]
  ELSE ParseValidated(candidates, i,
                      WorkflowPlanSchema(safeJsonParse(stripTrailingCommas(candidates[i]))))

parsePlan(text) == ParseCandidates(extractJsonObjectCandidates(text), 1)

(***************************************************************************)
(* Substring tests on texts written in word symbols.                       *)
(***************************************************************************)
\* The word symbols that hold the word w: w itself and its plural.
Holding(w) ==
  {w} \cup (IF w = "week" THEN {"weeks"} ELSE {})
      \cup (IF w = "insight" THEN {"insights"} ELSE {})

\* text.includes(w) for a word w
Includes(text, w) == \E i \in DOMAIN text : text[i].c \in Holding(w)

\* text.includes(w1 + " " + w2)
IncludesPhrase(text, w1, w2) ==
  \E i \in DOMAIN text :
    /\ i + 2 <= Len(text)
    /\ text[i].c = w1
    /\ text[i + 1] = Run(" ", 1)
    /\ text[i + 2].c \in Holding(w2)

\* The digits captured by /top\s+(\d+)/ in text, as a number; None without a match.
TopNumber(text) ==
  LET at == {i \in DOMAIN text :
               /\ text[i].c = "top"
               /\ i < Len(text)
               /\ IsWs(text[i + 1].c)
               /\ LeadingInt(TrimStart(SubSeq(text, i + 1, Len(text))), None) # None}
  IN IF at = {} THEN None
     ELSE LET i == CHOOSE j \in at : \A k \in at : j <= k
          IN LeadingInt(TrimStart(SubSeq(text, i + 1, Len(text))), None)

(***************************************************************************)
(* data/time.ts                                                            *)
(***************************************************************************)
Todays == {"2025-01-15", "2025-01-19"}

\* getTimeContext(today) for the days of Todays, a Wednesday and the Sunday
\* of the same Monday-to-Sunday week, and for Wednesday 2026-02-04.
getTimeContext(today) ==
  IF today = "2026-02-04"
    THEN [today |-> Str(today),
          thisWeekStart |-> Str("2026-02-02"), thisWeekEnd |-> Str("2026-02-08"),
          lastWeekStart |-> Str("2026-01-26"), lastWeekEnd |-> Str("2026-02-01"),
          thisMonthStart |-> Str("2026-02-01"), thisMonthEnd |-> Str("2026-02-28"),
          lastMonthStart |-> Str("2026-01-01"), lastMonthEnd |-> Str("2026-01-31")]
  ELSE
  [today |-> Str(today),
   thisWeekStart |-> Str("2025-01-13"), thisWeekEnd |-> Str("2025-01-19"),
   lastWeekStart |-> Str("2025-01-06"), lastWeekEnd |-> Str("2025-01-12"),
   thisMonthStart |-> Str("2025-01-01"), thisMonthEnd |-> Str("2025-01-31"),
   lastMonthStart |-> Str("2024-12-01"), lastMonthEnd |-> Str("2024-12-31")]

(***************************************************************************)
(* agents/workflowPlanner.ts: the heuristic planner                        *)
(***************************************************************************)
resolveRange(queryLower, ctx) ==
  IF IncludesPhrase(queryLower, "last", "month")
    THEN [startDate |-> ctx.lastMonthStart, endDate |-> ctx.lastMonthEnd]
  ELSE IF IncludesPhrase(queryLower, "this", "month")
    THEN [startDate |-> ctx.thisMonthStart, endDate |-> ctx.thisMonthEnd]
  ELSE IF IncludesPhrase(queryLower, "last", "week")
    THEN [startDate |-> ctx.lastWeekStart, endDate |-> ctx.lastWeekEnd]
  ELSE IF IncludesPhrase(queryLower, "this", "week")
    THEN [startDate |-> ctx.thisWeekStart, endDate |-> ctx.thisWeekEnd]
  ELSE [startDate |-> ctx.lastMonthStart, endDate |-> ctx.lastMonthEnd]

\* let metric = "sales"; if (q.includes("traffic") || ...) ...
MetricOfQuery(q) ==
  IF Includes(q, "traffic") \/ Includes(q, "sessions") THEN Str("sessions")
  ELSE IF Includes(q, "units") THEN Str("units")
  ELSE IF Includes(q, "conversion") THEN <<Run("conversion", 1), Run("_", 1), Run("rate", 1)>>
  ELSE Str("sales")

Step(tool, args) == [tool |-> ToolText(tool), args |-> Some(JObj(args))]

TopProductsStep(metric, range, limit) ==
  Step("top_products", [metric |-> JStr(metric), startDate |-> JStr(range.startDate),
                        endDate |-> JStr(range.endDate), limit |-> JNum(limit)])

\* heuristicPlan(input); a note is one symbol that stands for its sentence.
heuristicPlan(input) ==
  LET q == ToLowerCase(input.query)
      ctx == input.timeContext
      range == resolveRange(q, ctx)
      limit == IF TopNumber(q) = None THEN 10 ELSE Max(1, Min(100, TopNumber(q)[1]))
      metric == MetricOfQuery(q)
      thisWeek == [startDate |-> ctx.thisWeekStart, endDate |-> ctx.thisWeekEnd]
      lastWeek == [startDate |-> ctx.lastWeekStart, endDate |-> ctx.lastWeekEnd]
  IN IF Includes(q, "wow") /\ Includes(q, "drop") /\ Includes(q, "why")
       THEN [route |-> input.route, timeRange |-> Some(thisWeek),
             steps |-> <<TopProductsStep(Str("sales"), lastWeek, 50),
                         TopProductsStep(Str("sales"), thisWeek, 50),
                         TopProductsStep(Str("sessions"), lastWeek, 50),
                         TopProductsStep(Str("sessions"), thisWeek, 50),
                         TopProductsStep(Str("units"), lastWeek, 50),
                         TopProductsStep(Str("units"), thisWeek, 50)>>,
             notes |-> Some(Str("Heuristic WoW drop analysis"))]
     ELSE IF IncludesPhrase(q, "those", "products") /\ OrElse(input.session, <<>>) # <<>>
       THEN [route |-> input.route, timeRange |-> Some(range),
             steps |-> <<Step("timeseries",
                              [metric |-> JStr(metric),
                               productIds |-> JArr([i \in DOMAIN input.session[1] |->
                                                      JStr(input.session[1][i])]),
                               startDate |-> JStr(range.startDate),
                               endDate |-> JStr(range.endDate),
                               grain |-> JStr(Str("day"))])>>,
             notes |-> Some(Str("Heuristic plan for referenced products."))]
     ELSE IF Includes(q, "top") /\ Includes(q, "products")
       THEN [route |-> input.route, timeRange |-> Some(range),
             steps |-> <<TopProductsStep(metric, range, limit)>>,
             notes |-> Some(Str("Heuristic top_products plan."))]
     ELSE [route |-> input.route, timeRange |-> Some(range),
           steps |-> <<Step("list_products", [limit |-> JNum(20)])>>,
           notes |-> Some(Str("Heuristic fallback plan."))]

\* WorkflowPlanner.plan(input) of a planner built with llm (None: no LLM;
\* Some(text): the LLM whose completion is text):
\* [kind |-> "ok", plan, usedFallback, rawText] or [kind |-> "throw"].
\* "return { plan: fallback, usedFallback: true }"
FallbackPlan(input) ==
  [kind |-> "ok", plan |-> heuristicPlan(input), usedFallback |-> TRUE, rawText |-> None]

\* What plan returns once the completion has been parsed; an exception of
\* parsePlan is caught nowhere.
PlanOutcome(parsed, input, text) ==
  IF parsed.kind = "throw" THEN [kind |-> "throw"]
  ELSE IF parsed.kind = "ok"
         THEN [kind |-> "ok", plan |-> parsed.plan, usedFallback |-> FALSE,
               rawText |-> Some(text)]
  ELSE [kind |-> "ok", plan |-> heuristicPlan(input), usedFallback |-> TRUE,
        rawText |-> Some(text)]

plan(llm, input) ==
  IF llm = None THEN FallbackPlan(input) ELSE PlanOutcome(parsePlan(llm[1]), input, llm[1])

\* agent.run: ...(rawText ? { plannerRaw: rawText } : {}); runQuery:
\* ...(usedFallbackPlanner && plannerRawText ? { rawText: plannerRawText } : {})
PlannerRawText(out) ==
  IF out.usedFallback /\ out.rawText # None /\ out.rawText # Some(<<>>) THEN out.rawText
  ELSE None

(***************************************************************************)
(* memory/leverager.ts                                                     *)
(***************************************************************************)
STOPWORDS ==
  {"the", "and", "for", "with", "show", "what", "were", "last", "this", "that", "those",
   "month", "week", "products", "product", "top"}

\* ["domain_rule", ...] of kindsForStage
kindsForStage(stage) ==
  CASE stage = "manager_route" -> <<"domain_rule", "query_pattern", "user_preference">>
    [] stage = "workflow_plan" ->
         <<"tool_template", "query_pattern", "domain_rule", "failure_case", "user_preference">>
    [] stage = "insight_generate" ->
         <<"insight_pattern", "user_preference", "domain_rule", "failure_case",
           "query_pattern">>

\* [...new Set(seq)]
RECURSIVE Unique(_)
Unique(seq) ==
  IF seq = <<>> THEN <<>>
  ELSE LET init == Unique(SubSeq(seq, 1, Len(seq) - 1))
       IN IF seq[Len(seq)] \in SeqToSet(init) THEN init ELSE Append(init, seq[Len(seq)])

KeepsToken(tok) == TextLen(tok) >= 3 /\ ~\E w \in STOPWORDS : tok = Str(w)

\* A bare FTS5 query string parses when it is made of tokens and spaces.
IsBareQuery(text) ==
  text # <<>> /\ \A i \in DOMAIN text : IsTokSym(text[i].c, "js") \/ text[i].c = " "

\* buildRetrievalQuery(query, []): the MATCH expression, a list of phrases;
\* bad: the string is not an FTS5 expression (the MATCH raises an error).
buildRetrievalQuery(query) ==
  LET clean == ToLowerCase(Trim(CollapseWs(query)))
      phraseHints ==
        (IF IncludesPhrase(clean, "last", "month") THEN <<<<Str("last"), Str("month")>>>>
         ELSE <<>>)
        \o (IF IncludesPhrase(clean, "last", "week") THEN <<<<Str("last"), Str("week")>>>>
            ELSE <<>>)
        \o (IF Includes(clean, "top") /\ Includes(clean, "products")
              THEN <<<<Str("top"), Str("products")>>>> ELSE <<>>)
      tokens == SelectSeq(TokScan(clean, "js"), KeepsToken)
      unique == Unique(phraseHints \o [i \in DOMAIN tokens |-> FtsTokens(tokens[i])])
  IN IF unique = <<>>
       THEN [op |-> "AND", bad |-> ~IsBareQuery(clean),
             phrases |-> LET toks == FtsTokens(clean) IN [i \in DOMAIN toks |-> <<toks[i]>>]]
       ELSE [op |-> "OR", bad |-> FALSE, phrases |-> unique]

\* opts.k ?? 6, opts.maxCardChars ?? 600, and the limit that retrieve passes
\* to searchMemory
LeveragerK == 6
MaxCardChars == 600
RetrieveLimit == 30

\* The literal that renderCard appends to a cut card: the three characters
\* U+00E2 U+20AC U+00A6 of the source file.
CardSuffix == <<Run("U+00E2", 1), Run("U+20AC", 1), Run("U+00A6", 1)>>

\* replaceAll(/\s*\n\s*/g, "\n"): a stretch of white space that holds a line
\* break becomes one line break
CollapseLineBreaks(t) ==
  Flatten([i \in DOMAIN t |->
             IF ~IsWs(t[i].c) THEN <<t[i]>>
             ELSE IF \A j \in StretchStart(t, IsWs, i)..StretchEnd(t, IsWs, i) : t[j].c # "\n"
               THEN <<t[i]>>
             ELSE IF i = StretchStart(t, IsWs, i) THEN Str("\n")
             ELSE <<>>])

\* Number.prototype.toFixed(2) of a number of [0, 1] held in hundredths
ToFixed2(v) == DigitsText(v \div 100) \o Str(".") \o DigitsText((v % 100) \div 10)
                 \o DigitsText(v % 10)

\* lastUsedAt.slice(0, 10): the day of an instant; the instants of the model
\* are all of one day
IsoDay(instant) == Str("2025-01-15")

\* The three lines of a card, joined
CardRaw(hit) ==
  Canon(<<Run("MEMORY", 1), Run(" ", 1), Run("CARD", 1), Run(" ", 1), Run("[", 1)>>
          \o KindText(hit.kind) \o <<Run("]", 1), Run(" ", 1), Run("(", 1)>>
          \o ScopeText(hit.scope) \o <<Run(")", 1), Run("\n", 1)>>
          \o Trim(CollapseLineBreaks(hit.text))
          \o <<Run("\n", 1), Run("Signals", 1), Run(":", 1), Run(" ", 1), Run("q", 1),
               Run("=", 1)>> \o ToFixed2(hit.quality)
          \o <<Run(" ", 1), Run("imp", 1), Run("=", 1)>> \o ToFixed2(hit.importance)
          \o <<Run(" ", 1), Run("used", 1), Run("=", 1)>> \o DigitsText(hit.use_count)
          \o <<Run(" ", 1), Run("last", 1), Run("=", 1)>> \o IsoDay(hit.last_used_at))

\* raw.length > maxChars ? raw.slice(0, maxChars - 1) + suffix : raw
CardText(raw, maxChars) ==
  IF TextLen(raw) > maxChars THEN Slice(raw, maxChars - 1) \o CardSuffix ELSE raw

renderCard(hit, maxChars) ==
  [id |-> hit.id, kind |-> hit.kind, scope |-> hit.scope,
   text |-> CardText(CardRaw(hit), maxChars)]

\* What retrieve makes of the hits searchMemory returned
Retrieved(items, hits, k, maxCardChars, nowIso) ==
  [threw |-> FALSE,
   cards |-> [i \in 1..Min(k, Len(hits)) |-> renderCard(hits[i], maxCardChars)],
   items |-> MarkedUsed(items, {hits[i].id : i \in 1..Min(k, Len(hits))}, nowIso)]

\* retrieve(stage, query, scopes) of a leverager built with k and
\* maxCardChars: the outcomes it can have, [threw, cards, items].  The sort by
\* score is any order of the hits, the full-text rank being any.
RetrieveWith(items, fts, k, maxCardChars, stage, query, scopes, nowIso) ==
  LET q == buildRetrievalQuery(query)
      opts == [query |-> q, scopes |-> scopes, kinds |-> kindsForStage(stage),
               limit |-> Some(RetrieveLimit), nowIso |-> nowIso]
  IN IF q.bad THEN {[threw |-> TRUE, cards |-> <<>>, items |-> items]}
     ELSE {Retrieved(items, hits, k, maxCardChars, nowIso)
             : hits \in SearchResults(items, fts, opts)}

\* MemoryLeverager.retrieve of the leverager the orchestrator builds (part_004
\* line 28: no options)
Retrieve(items, fts, stage, query, scopes, nowIso) ==
  RetrieveWith(items, fts, LeveragerK, MaxCardChars, stage, query, scopes, nowIso)

(***************************************************************************)
(* MemoryLeverager.retrieve called directly, on leveragers built with and  *)
(* without options over stores that hold short and long items.             *)
(***************************************************************************)
\* new MemoryLeverager(store, opts)
LeveragerOptions ==
  {[k |-> None, maxCardChars |-> None], [k |-> Some(1), maxCardChars |-> Some(40)]}

LeveragerInputs ==
  {DefaultInput,
   [DefaultInput EXCEPT !.scope = "user:demo", !.text = TxtA2],
   [DefaultInput EXCEPT !.kind = "query_pattern", !.text = TxtLongY]}

\* "c", "rule", "query pattern"
LeveragerQueries ==
  {Str("c"), Str("rule"), <<Run("query", 1), Run(" ", 1), Run("pattern", 1)>>}

LeveragerReturned(opts, out) ==
  /\ \A r \in out.items : r.use_count <= MaxUse
  /\ memory_items' = out.items
  /\ lastCall' = [op |-> "retrieve", threw |-> out.threw,
                  k |-> OrElse(opts.k, LeveragerK),
                  maxCardChars |-> OrElse(opts.maxCardChars, MaxCardChars),
                  cards |-> out.cards]

LeveragerRetrieve(opts, stage, query) ==
  /\ \E out \in RetrieveWith(memory_items, memory_fts, OrElse(opts.k, LeveragerK),
                             OrElse(opts.maxCardChars, MaxCardChars), stage, query,
                             <<"global", "user:demo">>, clock) :
       LeveragerReturned(opts, out)
  /\ UNCHANGED <<orch, runQuery, memory_fts, tool_cache, runs, clock, ulids, runScenario>>

LeveragerNext ==
  \/ \E input \in LeveragerInputs : UpsertMemoryItem(input)
  \/ \E opts \in LeveragerOptions, query \in LeveragerQueries,
        stage \in {"manager_route", "workflow_plan", "insight_generate"} :
       LeveragerRetrieve(opts, stage, query)
  \/ Tick

SpecLeverager == StoreInit /\ [][LeveragerNext]_vars

(***************************************************************************)
(* searchMemory and MemoryLeverager.retrieve over stores that hold items   *)
(* of two users and of kinds that some stages leave out.                   *)
(***************************************************************************)
ScopedInputs ==
  {[DefaultInput EXCEPT !.scope = sc, !.kind = kd]
     : sc \in {"global", "user:demo", "user:u2"},
       kd \in {"domain_rule", "tool_template", "insight_pattern"}}

\* searchMemory({query, scopes, kinds}) with and without scopes and kinds
ScopedSearches ==
  {[DefaultSearch EXCEPT !.scopes = sc, !.kinds = kd]
     : sc \in {<<>>, <<"user:u2">>, <<"global", "user:demo">>},
       kd \in {<<>>, kindsForStage("manager_route")}}

\* this.leverager.retrieve({stage, query, scopes}) with the scopes runQuery
\* makes for userId: ["global", `user:${params.userId}`]
RetrieveForUser(userId, stage, query) ==
  /\ \E out \in Retrieve(memory_items, memory_fts, stage, query,
                         <<"global", "user:" \o userId>>, clock) :
       /\ \A r \in out.items : r.use_count <= MaxUse
       /\ memory_items' = out.items
       /\ lastCall' = [op |-> "retrieve", threw |-> out.threw, userId |-> userId,
                       stage |-> stage, scopes |-> <<"global", "user:" \o userId>>,
                       cards |-> out.cards]
  /\ UNCHANGED <<orch, runQuery, memory_fts, tool_cache, runs, clock, ulids, runScenario>>

ScopedNext ==
  \/ \E input \in ScopedInputs : UpsertMemoryItem(input)
  \/ \E opts \in ScopedSearches : SearchMemory(opts)
  \/ \E userId \in {"demo", "u2"},
        stage \in {"manager_route", "workflow_plan", "insight_generate"} :
       RetrieveForUser(userId, stage, Str("c"))

SpecScopes == StoreInit /\ [][ScopedNext]_vars

(***************************************************************************)
(* data/sellerAnalytics.ts over a sample dataset, and the execute          *)
(* functions of tools/registry.ts.                                         *)
(***************************************************************************)
\* products, in table order
Products == <<"p1", "p2">>

\* orders_daily joined with traffic_daily: one row per product and day; the
\* sample holds the same number in its sales, units and sessions columns.
OrdersDaily ==
  {[product |-> "p1", date |-> "2024-12-01", value |-> 90],
   [product |-> "p2", date |-> "2024-12-31", value |-> 80],
   [product |-> "p1", date |-> "2025-01-06", value |-> 20],
   [product |-> "p2", date |-> "2025-01-06", value |-> 10],
   [product |-> "p1", date |-> "2025-01-13", value |-> 5],
   [product |-> "p2", date |-> "2025-01-13", value |-> 15],
   [product |-> "p1", date |-> "2026-01-01", value |-> 30],
   [product |-> "p2", date |-> "2026-01-26", value |-> 40]}

\* The date symbols up to the end of January 2025.
Dates2025 ==
  {"2024-12-01", "2024-12-31", "2025-01-01", "2025-01-06", "2025-01-12", "2025-01-13",
   "2025-01-15", "2025-01-19", "2025-01-31"}

\* The order of ISO dates as strings: the dates at and before d.
DatesUpTo(d) ==
  CASE d = "2024-12-01" -> {"2024-12-01"}
    [] d = "2024-12-31" -> {"2024-12-01", "2024-12-31"}
    [] d = "2025-01-01" -> {"2024-12-01", "2024-12-31", "2025-01-01"}
    [] d = "2025-01-06" -> {"2024-12-01", "2024-12-31", "2025-01-01", "2025-01-06"}
    [] d = "2025-01-12" -> Dates2025 \ {"2025-01-13", "2025-01-15", "2025-01-19", "2025-01-31"}
    [] d = "2025-01-13" -> Dates2025 \ {"2025-01-15", "2025-01-19", "2025-01-31"}
    [] d = "2025-01-15" -> Dates2025 \ {"2025-01-19", "2025-01-31"}
    [] d = "2025-01-19" -> Dates2025 \ {"2025-01-31"}
    [] d = "2025-01-31" -> Dates2025
    [] d = "2026-01-01" -> Dates2025 \cup {"2026-01-01"}
    [] d = "2026-01-26" -> Dates2025 \cup {"2026-01-01", "2026-01-26"}
    [] d = "2026-01-31" -> Dates2025 \cup {"2026-01-01", "2026-01-26", "2026-01-31"}
    [] d = "2026-02-01" -> DateSyms \ {"2026-02-02", "2026-02-04", "2026-02-08", "2026-02-28"}
    [] d = "2026-02-02" -> DateSyms \ {"2026-02-04", "2026-02-08", "2026-02-28"}
    [] d = "2026-02-04" -> DateSyms \ {"2026-02-08", "2026-02-28"}
    [] d = "2026-02-08" -> DateSyms \ {"2026-02-28"}
    [] d = "2026-02-28" -> DateSyms

\* o.date >= startDate AND o.date <= endDate, the dates being date symbols
InRange(date, startDate, endDate) ==
  /\ startDate \in {Str(d) : d \in DateSyms} /\ endDate \in {Str(d) : d \in DateSyms}
  /\ startDate[1].c \in DatesUpTo(date)
  /\ date \in DatesUpTo(endDate[1].c)

RECURSIVE SumValues(_)
SumValues(rows) ==
  IF rows = {} THEN 0
  ELSE LET r == CHOOSE x \in rows : TRUE IN r.value + SumValues(rows \ {r})

\* ORDER BY value DESC of a sequence of groups (insertion sort on total).
RECURSIVE OrderByValueDesc(_)
OrderByValueDesc(seq) ==
  IF seq = <<>> THEN <<>>
  ELSE LET rest == OrderByValueDesc(Tail(seq))
           k == Cardinality({i \in DOMAIN rest : rest[i].total > Head(seq).total})
       IN SubSeq(rest, 1, k) \o <<Head(seq)>> \o SubSeq(rest, k + 1, Len(rest))

\* topProducts(db, args): GROUP BY product ORDER BY value DESC LIMIT limit
topProducts(args) ==
  LET rowsOf(p) == {o \in OrdersDaily : o.product = p
                                        /\ InRange(o.date, args.startDate.s, args.endDate.s)}
      present == SelectSeq([i \in DOMAIN Products |->
                              [product |-> Products[i], n |-> Cardinality(rowsOf(Products[i])),
                               total |-> SumValues(rowsOf(Products[i]))]],
                           LAMBDA g : g.n > 0)
      sorted == OrderByValueDesc(present)
      limit == Max(1, Min(100, args.limit.n))
  IN [i \in 1..Min(limit, Len(sorted)) |->
        JObj([productId |-> JStr(Str(sorted[i].product)), metric |-> args.metric,
              metricValue |-> JNum(sorted[i].total)])]

\* listProducts(db, filters); no product of the sample is in a category
listProducts(args) ==
  IF "category" \in DOMAIN args /\ args.category.s # <<>> THEN <<>>
  ELSE LET limit == Max(1, Min(500, IF "limit" \in DOMAIN args THEN args.limit.n ELSE 100))
       IN [i \in 1..Min(limit, Len(Products)) |->
             JObj([id |-> JStr(Str(Products[i]))])]

\* timeseries(db, args): ORDER BY product_id, date, grouped by product
timeseries(args) ==
  LET ids == {args.productIds.a[i].s : i \in DOMAIN args.productIds.a} \ {<<>>}
      pointsOf(p) == SelectSeq([i \in 1..8 |->
                                   LET d == <<"2024-12-01", "2024-12-31", "2025-01-06",
                                              "2025-01-12", "2025-01-13", "2025-01-19",
                                              "2026-01-01", "2026-01-26">>[i]
                                       rows == {o \in OrdersDaily : o.product = p /\ o.date = d
                                                  /\ InRange(d, args.startDate.s, args.endDate.s)}
                                   IN [date |-> d, rows |-> rows]],
                               LAMBDA x : x.rows # {})
      series == SelectSeq([i \in DOMAIN Products |->
                             [product |-> Products[i], points |-> pointsOf(Products[i])]],
                          LAMBDA s : Str(s.product) \in ids /\ s.points # <<>>)
  IN [i \in DOMAIN series |->
        JObj([productId |-> JStr(Str(series[i].product)), metric |-> args.metric,
              points |-> JArr([j \in DOMAIN series[i].points |->
                                 JObj([date |-> JStr(Str(series[i].points[j].date)),
                                       value |-> JNum(SumValues(series[i].points[j].rows))])])])]

\* computeChanges(points); the schema has let through two points or more
computeChanges(points) ==
  LET start == points[1].o.value
      end == points[Len(points)].o.value
      absChange == end.n - start.n
  IN JObj([startValue |-> start, endValue |-> end, absChange |-> JNum(absChange),
           pctChange |-> IF start.n = 0 THEN (IF end.n = 0 THEN JNum(0) ELSE JNum(1))
                         ELSE IF absChange % start.n = 0 THEN JNum(absChange \div start.n)
                         ELSE JFrac(absChange \div start.n)])

\* toolRegistry[tool].execute(ctx, args), args an object value
Execute(tool, args) ==
  CASE tool = "list_products" -> JObj([products |-> JArr(listProducts(args.o))])
    [] tool = "top_products" -> JObj([rows |-> JArr(topProducts(args.o))])
    [] tool = "timeseries" -> JObj([series |-> JArr(timeseries(args.o))])
    [] tool = "benchmark" ->
         \* benchmarks_daily is empty in the sample: AVG is NULL, Number(0)
         JObj([category |-> args.o.category, metric |-> args.o.metric, value |-> JNum(0)])
    [] tool = "compute_changes" -> computeChanges(args.o.points.a)

(***************************************************************************)
(* agents/managerAgent.ts                                                  *)
(***************************************************************************)
\* The regular expressions test the query whatever its case.
IncludesAny(query, words) == \E w \in words : Includes(ToLowerCase(query), w)

heuristicDecision(query) ==
  LET looksLikeData ==
        \/ IncludesAny(query, {"sales", "revenue", "units", "sessions", "traffic",
                               "conversion", "benchmark", "month", "week", "yoy", "mom",
                               "wow"})
        \/ TopNumber(ToLowerCase(query)) # None
      ood == ~looksLikeData
               \/ IncludesAny(query, {"weather", "recipe", "love", "movie", "music",
                                      "politics", "medical"})
      route == IF IncludesAny(query, {"why", "perform", "benchmark", "recommend", "improve",
                                      "diagnostic", "compare", "insight"})
                 THEN "insight_generator" ELSE "data_presenter"
  IN IF ood THEN [confident |-> TRUE, decision |-> [ood |-> TRUE, route |-> None]]
     ELSE [confident |-> TRUE, decision |-> [ood |-> FALSE, route |-> Some(route)]]

\* decide that asks the LLM whenever one is configured, whatever the
\* heuristic's confidence.
decideAskingLlm(llm, query, completion) ==
  IF llm /\ completion # None THEN completion[1] ELSE heuristicDecision(query).decision

\* decide gets as far as "await this.llm.complete(...)"
CallsLlm(llm, query) == llm /\ ~heuristicDecision(query).confident

\* ManagerAgent.decide: the completion of the LLM is read only when the
\* heuristic is not confident; completion: what safeParseJsonDecision made of
\* it (None: nothing).
decide(llm, query, completion) ==
  LET heuristic == heuristicDecision(query)
  IN IF ~llm \/ heuristic.confident THEN heuristic.decision
     ELSE IF completion # None THEN completion[1]
     ELSE heuristic.decision

(***************************************************************************)
(* util/json.ts, tools/signature.ts and the tool cache of the store        *)
(***************************************************************************)
\* An object that keeps its own properties in insertion order: pairs is the
\* sequence of its [k |-> key, v |-> value].  (A JObj is an object whose order
\* was left out: it holds no JKeyed and "__proto__" is none of its keys.)
JKeyed(pairs) == [t |-> "keyed", pairs |-> pairs]

\* The keys of the objects with ordered properties, as Array.prototype.sort
\* orders them (by UTF-16 code units).
SortedKeyNames ==
  <<"__proto__", "endDate", "limit", "metric", "range", "rows", "startDate">>

\* Object.keys(v).sort()
SortedKeys(pairs) ==
  SelectSeq(SortedKeyNames, LAMBDA key : \E i \in DOMAIN pairs : pairs[i].k = key)

\* The own properties of acc after "acc[key] = v[key]" for the keys in turn,
\* acc starting as {}: the assignment to "__proto__" goes to the setter of
\* Object.prototype and makes no own property.
OwnAfterAssign(pairs) == SelectSeq(pairs, LAMBDA p : p.k # "__proto__")

\* The same replacer without the sort: the properties in the order of v.
ReplacerUnsorted(pairs) == OwnAfterAssign(pairs)

\* What the replacer of stableStringify returns for the object v of
\* properties pairs: Object.keys(v).sort().reduce(...)
Replacer(pairs) ==
  OwnAfterAssign([j \in DOMAIN SortedKeys(pairs) |->
                    pairs[CHOOSE i \in DOMAIN pairs : pairs[i].k = SortedKeys(pairs)[j]]])

\* The value JSON.stringify(value, replacer) writes out: the replacer is
\* called on every value, the members of arrays and of the replaced objects
\* included.
RECURSIVE Stable(_)
StableMembers(replaced) ==
  [i \in DOMAIN replaced |-> [k |-> replaced[i].k, v |-> Stable(replaced[i].v)]]

Stable(value) ==
  IF value.t = "keyed" THEN JKeyed(StableMembers(Replacer(value.pairs)))
  ELSE IF value.t = "arr" THEN JArr([i \in DOMAIN value.a |-> Stable(value.a[i])])
  ELSE value

\* stableStringify(value): the text JSON.parse reads back as the value that
\* was written out, the properties of its objects in the order of the text.
stableStringify(value) == ObjText(Stable(value))

\* toolSignature(tool, args, namespace): the tool, a colon and the digest of
\* `${ns}${tool}:${stable}`; the digest stands for what it digests.  An
\* empty namespace counts as none.
toolSignature(tool, args, namespace) ==
  [tool |-> tool,
   hash |-> [ns |-> IF namespace = None \/ namespace = Some("") THEN None ELSE namespace,
             tool |-> tool, stable |-> stableStringify(args)]]

\* getToolCache(signature): None (null) or the row's date and parsed result;
\* text that does not parse is returned as the string it is.
getToolCache(cache, signature) ==
  LET rows == {row \in cache : row.signature = signature}
  IN IF rows = {} THEN None
     ELSE LET row == CHOOSE r \in rows : TRUE
              parsed == safeJsonParse(row.result_json)
          IN Some([createdAt |-> row.created_at,
                   result |-> IF parsed # None THEN parsed[1] ELSE JStr(row.result_json)])

\* setToolCache(tool, signature, args, result): INSERT ... ON CONFLICT(signature)
\* DO UPDATE SET created_at, result_json
setToolCache(cache, tool, signature, args, result, createdAt) ==
  IF \E row \in cache : row.signature = signature
    THEN {IF row.signature = signature
            THEN [row EXCEPT !.created_at = createdAt, !.result_json = stableStringify(result)]
            ELSE row : row \in cache}
    ELSE cache \cup {[signature |-> signature, created_at |-> createdAt, tool |-> tool,
                      args_json |-> stableStringify(args),
                      result_json |-> stableStringify(result)]}

(***************************************************************************)
(* tools/executor.ts                                                       *)
(***************************************************************************)
\* The steps WorkflowExecutor.execute runs out of a plan.
ExecutedStepsCap == 6

\* The always-miss lookup: what the executor does with the cache disabled.
CacheLookupOff(cache, enableCache, sig) == None

\* if (this.enableCache) { const cached = this.store.getToolCache(sig); ...
CacheLookup(cache, enableCache, sig) ==
  IF enableCache THEN getToolCache(cache, sig) ELSE None

\* One turn of the loop of execute: [cache, record, invoked, lookedUp, threw];
\* invoked tells whether def.execute was called, lookedUp whether getToolCache
\* was, threw whether the turn ended in an exception: def is undefined or has
\* no execute (a tool that is not registered), or def.execute threw (fails).
\* A thrown turn leaves no record and writes nothing to the cache.
ExecuteStep(cache, step, enableCache, namespace, now, fails) ==
  LET def == RegistryLookup(step.tool)
      tool == def.name
      sig == toolSignature(tool, step.args[1], namespace)
      cached == CacheLookup(cache, enableCache, sig)
      result == Execute(tool, step.args[1])
  IN IF def.kind # "tool"
       THEN [cache |-> cache, invoked |-> FALSE, lookedUp |-> enableCache, threw |-> TRUE]
     ELSE IF cached # None
       THEN [cache |-> cache, invoked |-> FALSE, lookedUp |-> enableCache, threw |-> FALSE,
             record |-> [tool |-> tool, args |-> step.args[1], signature |-> sig,
                         cached |-> TRUE, startedAt |-> now, result |-> cached[1].result]]
     ELSE IF fails
       THEN [cache |-> cache, invoked |-> TRUE, lookedUp |-> enableCache, threw |-> TRUE]
     ELSE [cache |-> IF enableCache
                       THEN setToolCache(cache, tool, sig, step.args[1], result, now)
                       ELSE cache,
           invoked |-> TRUE, lookedUp |-> enableCache, threw |-> FALSE,
           record |-> [tool |-> tool, args |-> step.args[1], signature |-> sig,
                       cached |-> FALSE, startedAt |-> now, result |-> result]]

\* execute(plan) from step i on: [cache, toolCalls, invoked (the steps whose
\* tool was called), lookups (the steps looked up in the cache), threw].
\* faultAt is the step at which the dataset fails its tool (0: at none).
RECURSIVE ExecuteFrom(_, _, _, _, _, _, _, _)
\* The loop after the turn of step i, whose outcome is out.
ExecuteTurn(out, steps, i, enableCache, namespace, now, faultAt, acc) ==
  IF out.threw
    THEN [cache |-> out.cache, toolCalls |-> acc.toolCalls, threw |-> TRUE,
          invoked |-> IF out.invoked THEN Append(acc.invoked, i) ELSE acc.invoked,
          lookups |-> IF out.lookedUp THEN Append(acc.lookups, i) ELSE acc.lookups]
    ELSE ExecuteFrom(out.cache, steps, i + 1, enableCache, namespace, now, faultAt,
                     [toolCalls |-> Append(acc.toolCalls, out.record),
                      invoked |-> IF out.invoked THEN Append(acc.invoked, i) ELSE acc.invoked,
                      lookups |-> IF out.lookedUp THEN Append(acc.lookups, i)
                                  ELSE acc.lookups])

ExecuteFrom(cache, steps, i, enableCache, namespace, now, faultAt, acc) ==
  IF i > Len(steps)
    THEN [cache |-> cache, toolCalls |-> acc.toolCalls, invoked |-> acc.invoked,
          lookups |-> acc.lookups, threw |-> FALSE]
    ELSE ExecuteTurn(ExecuteStep(cache, steps[i], enableCache, namespace, now, faultAt = i),
                     steps, i, enableCache, namespace, now, faultAt, acc)

\* The loop over every step of the plan, whatever their number.
executeAll(cache, workflow, enableCache, namespace, now, faultAt) ==
  ExecuteFrom(cache, workflow.steps, 1, enableCache, namespace, now, faultAt,
              [toolCalls |-> <<>>, invoked |-> <<>>, lookups |-> <<>>])

\* for (const step of plan.steps.slice(0, 6)) { ... } return { toolCalls, ... }
execute(cache, workflow, enableCache, namespace, now, faultAt) ==
  ExecuteFrom(cache, SubSeq(workflow.steps, 1, Min(ExecutedStepsCap, Len(workflow.steps))), 1,
              enableCache, namespace, now, faultAt,
              [toolCalls |-> <<>>, invoked |-> <<>>, lookups |-> <<>>])

(***************************************************************************)
(* memory/evaluator.ts.  Scores are in thousandths, rounded down.          *)
(***************************************************************************)
\* this.cfg.storeGoodThreshold and storeFailureThreshold, in thousandths
StoreGoodThreshold == 800
StoreFailureThreshold == 500

\* A symbol of \w
IsWordSym(c) == IsTokSym(c, "js") \/ c \in UpperLetters

\* replaceAll(/\b\d+\b/g, "<n>"): a word of digits only becomes <n>
ReplaceNumbers(t) ==
  Flatten([i \in DOMAIN t |->
             IF t[i].c \notin Digits THEN <<t[i]>>
             ELSE IF \E j \in StretchStart(t, IsWordSym, i)..StretchEnd(t, IsWordSym, i) :
                       t[j].c \notin Digits
               THEN <<t[i]>>
             ELSE IF i = StretchStart(t, IsWordSym, i) THEN Str("<n>")
             ELSE <<>>])

canonicalizeQuery(query) ==
  LET lowered == ToLowerCase(Trim(query))
      dated == [i \in DOMAIN lowered |->
                  IF lowered[i].c \in DateSyms THEN Run("<date>", lowered[i].n)
                  ELSE lowered[i]]
  IN CollapseWs(ReplaceNumbers(dated))

RECURSIVE DropDigits(_)
DropDigits(t) == IF t # <<>> /\ Head(t).c \in Digits THEN DropDigits(Tail(t)) ELSE t

\* The digits captured by /top\s+(\d+)\s+products/ in text, as a number; None
\* without a match.
TopProductsNumber(text) ==
  LET digitsAt(i) == TrimStart(SubSeq(text, i + 1, Len(text)))
      at == {i \in DOMAIN text :
               /\ text[i].c = "top"
               /\ i < Len(text)
               /\ IsWs(text[i + 1].c)
               /\ LeadingInt(digitsAt(i), None) # None
               /\ LET after == DropDigits(digitsAt(i))
                  IN /\ after # <<>>
                     /\ IsWs(Head(after).c)
                     /\ TrimStart(after) # <<>>
                     /\ Head(TrimStart(after)).c = "products"}
  IN IF at = {} THEN None
     ELSE LeadingInt(digitsAt(CHOOSE j \in at : \A k \in at : j <= k), None)

\* inferEvalSpec(query, today): None (null) or the spec
inferEvalSpec(query, today) ==
  LET q == ToLowerCase(query)
      ctx == getTimeContext(today)
      limitMatch == TopProductsNumber(q)
      limit == IF limitMatch = None THEN 10 ELSE Max(1, Min(100, limitMatch[1]))
      metric == MetricOfQuery(q)
      lastMonth == [startDate |-> ctx.lastMonthStart, endDate |-> ctx.lastMonthEnd]
      thisMonth == [startDate |-> ctx.thisMonthStart, endDate |-> ctx.thisMonthEnd]
      lastWeek == [startDate |-> ctx.lastWeekStart, endDate |-> ctx.lastWeekEnd]
  IN IF /\ Includes(q, "top") /\ Includes(q, "products")
        /\ (IncludesPhrase(q, "last", "month") \/ IncludesPhrase(q, "this", "month")
              \/ IncludesPhrase(q, "last", "week"))
       THEN Some([type |-> "top_products", metric |-> metric, limit |-> limit,
                  range |-> IF IncludesPhrase(q, "last", "month") THEN lastMonth
                            ELSE IF IncludesPhrase(q, "this", "month") THEN thisMonth
                            ELSE lastWeek])
     ELSE IF (Includes(q, "traffic") \/ Includes(q, "sessions"))
               /\ IncludesPhrase(q, "those", "products")
       THEN Some([type |-> "timeseries", metric |-> Str("sessions"),
                  range |-> IF IncludesPhrase(q, "last", "month") THEN lastMonth
                            ELSE IF IncludesPhrase(q, "this", "month") THEN thisMonth
                            ELSE IF IncludesPhrase(q, "last", "week") THEN lastWeek
                            ELSE lastMonth])
     ELSE IF Includes(q, "why") /\ Includes(q, "drop") /\ Includes(q, "wow")
       THEN Some([type |-> "why_drop_wow", metric |-> metric,
                  thisWeek |-> [startDate |-> ctx.thisWeekStart, endDate |-> ctx.thisWeekEnd],
                  lastWeek |-> lastWeek])
     ELSE None

\* toolCalls.find((c) => c.tool === tool), as an option
FindCall(toolCalls, tool) ==
  LET at == {i \in DOMAIN toolCalls : toolCalls[i].tool = tool}
  IN IF at = {} THEN None ELSE Some(toolCalls[CHOOSE i \in at : \A j \in at : i <= j])

\* (result as any)?.[key] when it is an array, as an option
ArrayOf(result, key) ==
  IF result.t = "obj" /\ key \in DOMAIN result.o /\ result.o[key].t = "arr"
    THEN Some(result.o[key].a) ELSE None

Scores(correctness, completeness, relevance, quality, notes) ==
  [correctness |-> correctness, completeness |-> completeness, relevance |-> relevance,
   quality |-> quality, notes |-> notes]

Abs(x) == IF x < 0 THEN 0 - x ELSE x

\* (correctness + completeness + relevance) / 3 in thousandths, rounded down.
\* The division is one of doubles: the quotient of 2.4 by 3 is
\* 0.7999999999999999, which is below 0.8, whatever the three scores that add
\* up to 2.4; that of 1.5 by 3 is at most 0.5.
MeanOfScores(correctness, completeness, relevance) ==
  IF correctness + completeness + relevance = 2400 THEN 799
  ELSE (correctness + completeness + relevance) \div 3

\* nearlyEqual(a, b, 0.01)
nearlyEqual(a, b) == a = b \/ Abs(a - b) * 100 <= Max(1, Max(Abs(a), Abs(b)))

\* args.metric === spec.metric && args.startDate === ... && args.endDate === ...
ArgsMatch(args, metric, range) ==
  /\ Get(args, "metric") = Some(JStr(metric))
  /\ Get(args, "startDate") = Some(JStr(range.startDate))
  /\ Get(args, "endDate") = Some(JStr(range.endDate))

evaluateTopProducts(toolCalls, spec) ==
  LET expected == topProducts([metric |-> JStr(spec.metric),
                               startDate |-> JStr(spec.range.startDate),
                               endDate |-> JStr(spec.range.endDate),
                               limit |-> JNum(spec.limit)])
      call == FindCall(toolCalls, "top_products")
      actualRows == IF call = None THEN None ELSE ArrayOf(call[1].result, "rows")
  IN IF call = None THEN Scores(0, 0, 0, 0, <<"Missing top_products call.">>)
     ELSE IF actualRows = None \/ actualRows = Some(<<>>)
       THEN Scores(0, 0, 200, 70, <<"Empty tool result.">>)
     ELSE LET actual == actualRows[1]
              n == Min(spec.limit, Min(Len(expected), Len(actual)))
              matches == Cardinality({i \in 1..n :
                           /\ Get(expected[i], "productId") = Get(actual[i], "productId")
                           /\ Get(actual[i], "metricValue") # None
                           /\ Get(actual[i], "metricValue")[1].t = "num"
                           /\ nearlyEqual(expected[i].o.metricValue.n,
                                          actual[i].o.metricValue.n)})
              correctness == IF n > 0 THEN (matches * 1000) \div n ELSE 0
              completeness == Min(1000, (Len(actual) * 1000) \div spec.limit)
              relevance == IF ArgsMatch(call[1].args, spec.metric, spec.range)
                             THEN 1000 ELSE 400
          IN Scores(correctness, completeness, relevance,
                    MeanOfScores(correctness, completeness, relevance),
                    (IF relevance < 1000
                       THEN <<"Time range or metric differed from expected.">> ELSE <<>>)
                    \o (IF correctness < 1000 THEN <<"Top list mismatch: " \o ToString(matches) \o "/" \o ToString(n)
                                                  \o " rows match.">> ELSE <<>>))

evaluateTimeseries(toolCalls, spec) ==
  LET call == FindCall(toolCalls, "timeseries")
  IN IF call = None THEN Scores(0, 0, 0, 0, <<"Missing timeseries call.">>)
     ELSE LET args == call[1].args
              relevance == IF ArgsMatch(args, spec.metric, spec.range) THEN 1000 ELSE 400
              series == ArrayOf(call[1].result, "series")
          IN IF series = None \/ series = Some(<<>>)
               THEN Scores(0, 200, relevance, MeanOfScores(0, 200, relevance), <<"Empty series.">>)
             ELSE LET expectedCount == IF ArrayOf(args, "productIds") # None
                                         THEN Len(ArrayOf(args, "productIds")[1])
                                         ELSE Len(series[1])
                      completeness == IF expectedCount > 0
                                        THEN Min(1000, (Len(series[1]) * 1000) \div expectedCount)
                                        ELSE 500
                      points == {<<i, j>> \in (DOMAIN series[1]) \X (1..6) :
                                   /\ ArrayOf(series[1][i], "points") # None
                                   /\ j \in DOMAIN ArrayOf(series[1][i], "points")[1]}
                      inRange == {p \in points :
                                    LET date == series[1][p[1]].o.points.a[p[2]].o.date.s
                                    IN date \in {Str(d) : d \in DateSyms}
                                       /\ InRange(date[1].c, spec.range.startDate,
                                                  spec.range.endDate)}
                      correctness == IF points # {}
                                       THEN (Cardinality(inRange) * 1000) \div Cardinality(points)
                                       ELSE 500
                  IN Scores(correctness, completeness, relevance,
                            MeanOfScores(correctness, completeness, relevance),
                            (IF relevance < 1000
                               THEN <<"Metric or time range differed from expected.">>
                               ELSE <<>>)
                            \o (IF correctness < 1000
                                  THEN <<"Some points were outside the expected range.">>
                                  ELSE <<>>))

\* firstTopProductId(call): rows?.[0]?.productId, as an option
firstTopProductId(rows) ==
  IF rows = None \/ rows = Some(<<>>) THEN None ELSE Get(rows[1][1], "productId")

evaluateWhyDropWoW(toolCalls, spec) ==
  LET hasTimeseries == FindCall(toolCalls, "timeseries") # None
      hasChanges == FindCall(toolCalls, "compute_changes") # None
      topCalls == SelectSeq(toolCalls, LAMBDA c : c.tool = "top_products")
      matching(range) == SelectSeq(topCalls, LAMBDA c : ArgsMatch(c.args, spec.metric, range))
      thisWeek == matching(spec.thisWeek)
      lastWeek == matching(spec.lastWeek)
      hasTopComparison == thisWeek # <<>> /\ lastWeek # <<>>
      relevance == IF hasTopComparison \/ (hasTimeseries /\ hasChanges) THEN 1000 ELSE 500
      completeness ==
        IF hasTimeseries /\ hasChanges THEN 900
        ELSE IF hasTopComparison THEN 800
        ELSE IF hasTimeseries THEN 500
        ELSE IF hasChanges THEN 300
        ELSE 0
      leader(range) == firstTopProductId(Some(topProducts(
                         [metric |-> JStr(spec.metric), startDate |-> JStr(range.startDate),
                          endDate |-> JStr(range.endDate), limit |-> JNum(1)])))
      checks == IF hasTopComparison
                  THEN <<[label |-> "thisWeek", expected |-> leader(spec.thisWeek),
                          actual |-> firstTopProductId(ArrayOf(thisWeek[1].result, "rows"))],
                         [label |-> "lastWeek", expected |-> leader(spec.lastWeek),
                          actual |-> firstTopProductId(ArrayOf(lastWeek[1].result, "rows"))]>>
                  ELSE <<>>
      comparable == SelectSeq(checks, LAMBDA c : c.expected # None /\ c.actual # None)
      mismatched == SelectSeq(comparable, LAMBDA c : c.expected # c.actual)
      correctness ==
        IF hasTopComparison
          THEN (IF comparable # <<>>
                  THEN ((Len(comparable) - Len(mismatched)) * 1000) \div Len(comparable)
                  ELSE 600)
        ELSE IF hasTimeseries /\ hasChanges THEN 600
        ELSE 200
      notes ==
        [i \in DOMAIN mismatched |-> "Top product mismatch for " \o mismatched[i].label \o "."]
        \o (IF ~hasTopComparison /\ ~(hasTimeseries /\ hasChanges)
              THEN <<"Missing top_products comparison for last week vs this week.">>
              ELSE <<>>)
        \o (IF hasTopComparison
              THEN (IF ~hasTimeseries /\ ~hasChanges
                      THEN <<"No timeseries/compute_changes drilldown; used weekly comparisons only.">>
                      ELSE <<>>)
              ELSE (IF ~hasTimeseries THEN <<"Missing timeseries call.">> ELSE <<>>)
                   \o (IF ~hasChanges THEN <<"Missing compute_changes call.">> ELSE <<>>))
  IN Scores(correctness, completeness, relevance,
            MeanOfScores(correctness, completeness, relevance), notes)

\* MemoryEvaluator.evaluate(run): None (null) or the scores
evaluate(query, toolCalls, today) ==
  LET spec == inferEvalSpec(query, today)
  IN IF spec = None THEN None
     ELSE IF spec[1].type = "top_products" THEN Some(evaluateTopProducts(toolCalls, spec[1]))
     ELSE IF spec[1].type = "timeseries" THEN Some(evaluateTimeseries(toolCalls, spec[1]))
     ELSE Some(evaluateWhyDropWoW(toolCalls, spec[1]))

\* notes.join(" ") as a text, a note being one symbol
RECURSIVE JoinNotes(_)
JoinNotes(notes) ==
  IF notes = <<>> THEN <<>>
  ELSE IF Len(notes) = 1 THEN Str(notes[1])
  ELSE Str(notes[1]) \o Str(" ") \o JoinNotes(Tail(notes))

\* JSON.stringify(args) of the arguments of a top_products call; a symbol
\* stands for the punctuation and the key between two values
ArgsJson(args) ==
  Str("{\"metric\":\"") \o args.o.metric.s
    \o Str("\",\"startDate\":\"") \o args.o.startDate.s
    \o Str("\",\"endDate\":\"") \o args.o.endDate.s
    \o Str("\",\"limit\":") \o DigitsText(args.o.limit.n) \o Str("}")

QueryPatternText(canonical) ==
  <<Run("Query", 1), Run(" ", 1), Run("pattern", 1), Run(":", 1), Run(" ", 1)>> \o canonical

ToolTemplateText(canonical, args) ==
  <<Run("Tool", 1), Run(" ", 1), Run("template", 1), Run(" ", 1), Run("for", 1), Run(" ", 1),
    Run("\"", 1)>> \o canonical
    \o <<Run("\"", 1), Run(":", 1), Run(" ", 1), Run("use", 1), Run(" ", 1), Run("top", 1),
         Run("_", 1), Run("products", 1), Run(" ", 1), Run("with", 1), Run(" ", 1),
         Run("args", 1), Run("=", 1)>> \o ArgsJson(args)

FailureCaseText(canonical, note) ==
  <<Run("Failure", 1), Run(" ", 1), Run("case", 1), Run(" ", 1), Run("for", 1), Run(" ", 1),
    Run("\"", 1)>> \o canonical \o <<Run("\"", 1), Run(":", 1), Run(" ", 1)>> \o note

\* A proposal that writes no tool_template and takes a quality at the failure
\* threshold for a middling one
proposeMemoryWritesBelow(run) ==
  IF run.scores = None THEN <<>>
  ELSE IF run.scores[1].quality >= StoreGoodThreshold
    THEN <<[scope |-> "user:" \o run.userId, kind |-> "query_pattern",
            text |-> QueryPatternText(canonicalizeQuery(run.query)),
            meta |-> [route |-> run.route], importance |-> Num(35),
            quality |-> Num(run.scores[1].quality \div 10)]>>
  ELSE IF run.scores[1].quality < StoreFailureThreshold
    THEN <<[scope |-> "user:" \o run.userId, kind |-> "failure_case",
            text |-> FailureCaseText(canonicalizeQuery(run.query),
                                     JoinNotes(run.scores[1].notes)),
            meta |-> [route |-> run.route, plan |-> run.plan, toolCalls |-> run.toolCalls],
            importance |-> Num(40), quality |-> Num(run.scores[1].quality \div 10)]>>
  ELSE <<[scope |-> "user:" \o run.userId, kind |-> "query_pattern",
          text |-> QueryPatternText(canonicalizeQuery(run.query)),
          meta |-> [route |-> run.route], importance |-> Num(20),
          quality |-> Num(run.scores[1].quality \div 10)]>>

\* proposeMemoryWrites(run): the list of writes; quality is stored in
\* hundredths
proposeMemoryWrites(run) ==
  IF run.scores = None THEN <<>>
  ELSE LET quality == run.scores[1].quality
           scope == "user:" \o run.userId
           canonical == canonicalizeQuery(run.query)
           topTool == FindCall(run.toolCalls, "top_products")
       IN IF quality >= StoreGoodThreshold
            THEN <<[scope |-> scope, kind |-> "query_pattern",
                    text |-> QueryPatternText(canonical), meta |-> [route |-> run.route],
                    importance |-> Num(35), quality |-> Num(quality \div 10)]>>
                 \o (IF topTool = None THEN <<>>
                     ELSE <<[scope |-> scope, kind |-> "tool_template",
                             text |-> ToolTemplateText(canonical, topTool[1].args),
                             meta |-> [tool |-> "top_products", args |-> topTool[1].args,
                                       route |-> run.route],
                             importance |-> Num(45), quality |-> Num(quality \div 10)]>>)
          ELSE IF quality <= StoreFailureThreshold
            THEN <<[scope |-> scope, kind |-> "failure_case",
                    text |-> FailureCaseText(canonical, JoinNotes(run.scores[1].notes)),
                    meta |-> [route |-> run.route, plan |-> run.plan,
                              toolCalls |-> run.toolCalls],
                    importance |-> Num(40), quality |-> Num(quality \div 10)]>>
          ELSE <<[scope |-> scope, kind |-> "query_pattern",
                  text |-> QueryPatternText(canonical), meta |-> [route |-> run.route],
                  importance |-> Num(20), quality |-> Num(quality \div 10)]>>

\* applyMemoryWrites(writes) from write i on, ulids being the ids handed out
\* so far: [items, fts, ulids, threw]
RECURSIVE applyMemoryWrites(_, _, _, _, _, _)
\* The input applyMemoryWrites hands to upsertMemoryItem for one proposed write
WriteInput(w, now, id) ==
  [id |-> Some(id), scope |-> w.scope, kind |-> w.kind, text |-> w.text,
   meta |-> Some(w.meta), createdAt |-> Some(now), lastUsedAt |-> Some(now),
   useCount |-> Some(0), importance |-> Some(w.importance), quality |-> Some(w.quality),
   expiresAt |-> None, dedupeKey |-> None]

\* The loop of applyMemoryWrites after write i: an exception ends it
AppliedWrite(res, writes, i, now, handedOut) ==
  IF res.threw
    THEN [items |-> res.items, fts |-> res.fts, ulids |-> handedOut + 1, threw |-> TRUE]
    ELSE applyMemoryWrites(res.items, res.fts, writes, i + 1, now, handedOut + 1)

applyMemoryWrites(items, fts, writes, i, now, handedOut) ==
  IF i > Len(writes) THEN [items |-> items, fts |-> fts, ulids |-> handedOut, threw |-> FALSE]
  ELSE CHOOSE out \in {AppliedWrite(res, writes, i, now, handedOut) :
                         res \in {UpsertResult(items, fts,
                                                WriteInput(writes[i], now, Ulid(handedOut + 1)),
                                                now, Ulid(handedOut + 2))}} : TRUE

(***************************************************************************)
(* orchestrator/orchestrator.ts: what the constructor seeds                *)
(***************************************************************************)
\* The text of the default rule.  A symbol that holds several words stands
\* for a stretch of the sentence none of whose words a query of the model
\* holds.
DefaultRuleText ==
  <<Run("Weeks are calendar weeks (Mon-Sun). \"", 1), Run("Last", 1), Run(" ", 1),
    Run("week", 1), Run("\" refers to the previous calendar week; \"", 1), Run("last", 1),
    Run(" ", 1), Run("month", 1), Run("\" refers to the previous calendar month.", 1)>>

\* The input of the upsert of ensureDefaultDomainRules
DefaultRuleInput(now) ==
  [id |-> Some("domain_rule_calendar_week"), scope |-> "global", kind |-> "domain_rule",
   text |-> DefaultRuleText, meta |-> Some([source |-> "default"]),
   createdAt |-> Some(now), lastUsedAt |-> Some(now), useCount |-> Some(0),
   importance |-> Some(Num(90)), quality |-> Some(Num(100)), expiresAt |-> None,
   dedupeKey |-> None]

(***************************************************************************)
(* data/time.ts and the agents' answers                                    *)
(***************************************************************************)
\* augmentQueryWithTimeContext(query, ctx); one symbol stands for the six
\* lines of the time context of a day
augmentQueryWithTimeContext(query, ctx) ==
  Trim(query) \o <<Run("\n", 2), Run("[Time context of " \o ctx.today[1].c \o "]", 1)>>

\* The header line of both agents' answers
DateRangeHeader(workflow) ==
  Str("Date range: ") \o workflow.timeRange[1].startDate \o Str("..")
    \o workflow.timeRange[1].endDate

\* resultsByTool[tool]: the result of the last call of the tool, as an option
ResultByTool(toolCalls, tool) ==
  LET at == {i \in DOMAIN toolCalls : toolCalls[i].tool = tool}
  IN IF at = {} THEN None
     ELSE Some(toolCalls[CHOOSE i \in at : \A j \in at : i >= j].result)

HasRows(result, key) ==
  result # None /\ ArrayOf(result[1], key) # None /\ ArrayOf(result[1], key)[1] # <<>>

\* renderDataPresenterResponse(plan, toolCalls, resultsByTool); one symbol
\* stands for the lines that list the rows
renderDataPresenterResponse(workflow, toolCalls) ==
  (IF workflow.timeRange # None THEN DateRangeHeader(workflow)
   ELSE Str("Date range: (unspecified)"))
  \o Str("\n")
  \o (IF HasRows(ResultByTool(toolCalls, "top_products"), "rows")
        THEN Str("[lines of the top products]")
      ELSE IF HasRows(ResultByTool(toolCalls, "timeseries"), "series")
        THEN Str("[lines of the series]")
      ELSE IF HasRows(ResultByTool(toolCalls, "list_products"), "products")
        THEN Str("[lines of the products]")
      ELSE Str("No results."))

\* The productIds of the lines that renderDataPresenterResponse writes for
\* the rows of resultsByTool.top_products, in their order
ListedProductIds(toolCalls) ==
  IF HasRows(ResultByTool(toolCalls, "top_products"), "rows")
    THEN [i \in DOMAIN ArrayOf(ResultByTool(toolCalls, "top_products")[1], "rows")[1] |->
            ArrayOf(ResultByTool(toolCalls, "top_products")[1], "rows")[1][i].o.productId.s]
    ELSE <<>>

\* nextSession.selectedProductIds of DataPresenterAgent.run
NextSession(session, toolCalls) ==
  LET call == FindCall(toolCalls, "top_products")
      top == IF call = None THEN None ELSE ArrayOf(call[1].result, "rows")
  IN IF top = None \/ top = Some(<<>>) THEN session
     ELSE Some([i \in 1..Min(20, Len(top[1])) |-> top[1][i].o.productId.s])

\* generateNarrative: the header, if any, and two fixed lines without an
\* LLM; the trimmed completion with one (completion: an option)
generateNarrative(workflow, completion) ==
  IF completion = None
    THEN (IF workflow.timeRange # None THEN DateRangeHeader(workflow) \o Str("\n") ELSE <<>>)
         \o <<Run("Insights", 1), Run(":", 1), Run("\n", 1), Run("- (LLM not configured)", 1)>>
    ELSE Trim(completion[1])

\* The answer to an out-of-scope query
OodResponseOther == Str("Out of scope.")

OodResponse ==
  Str("Out of scope: I can help with seller analytics (sales, traffic, benchmarks).")

(***************************************************************************)
(* orchestrator/orchestrator.ts: the conditions on config.memoryMode       *)
(***************************************************************************)
MemoryModes == {"baseline", "read", "readwrite", "readwrite_cache"}

RetrievalEnabledAlways(mode) == TRUE

\* params.config.memoryMode === "baseline" ? [] : this.leverager.retrieve(...)
RetrievalEnabled(mode) == mode # "baseline"

CacheEnabledUnlessBaseline(mode) == mode # "baseline"

\* const enableCache = params.config.memoryMode === "readwrite_cache"
CacheEnabled(mode) == mode = "readwrite_cache"

WritesEnabledAlways(mode) == TRUE

\* if (memoryMode === "readwrite" || memoryMode === "readwrite_cache")
WritesEnabled(mode) == mode \in {"readwrite", "readwrite_cache"}

\* A statement that replaces the table by the row
insertRunOnly(rows, row) == <<row>>

\* insertRun(run): INSERT INTO runs; the ids of the runs are fresh
insertRun(rows, row) == Append(rows, row)

\* The row insertRun writes for the run r: ood is the literal of the branch
RunRow(r, ood) ==
  [id |-> r.id, created_at |-> r.createdAt, user_id |-> r.params.userId,
   config_json |-> [memoryMode |-> r.params.mode, today |-> r.params.today],
   query |-> r.params.query, augmented_query |-> r.augmentedQuery,
   route |-> IF ood THEN None ELSE r.decision[1].route,
   ood |-> ood, plan_json |-> r.plan, tool_calls_json |-> r.toolCalls,
   response |-> r.responseText, eval_json |-> r.scores,
   memory_injected_json |-> r.memoryInjected]

(***************************************************************************)
(* WorkflowPlanner.plan as a function of its input and of the LLM's text.  *)
(***************************************************************************)
\* Bound on the steps of the plans the LLM writes.
MaxSteps == 7

QTop == <<Run("top", 1), Run(" ", 1), Run("products", 1), Run(" ", 1), Run("last", 1),
          Run(" ", 1), Run("week", 1)>>
QTop5 == <<Run("Show", 1), Run(" ", 1), Run("top", 1), Run(" ", 2), Run("5", 1), Run(" ", 1),
           Run("products", 1), Run(" ", 1), Run("this", 1), Run(" ", 1), Run("month", 1)>>
QWhy == <<Run("why", 1), Run(" ", 1), Run("did", 1), Run(" ", 1), Run("sales", 1),
          Run(" ", 1), Run("drop", 1), Run(" ", 1), Run("wow", 1)>>
QThose == <<Run("traffic", 1), Run(" ", 1), Run("for", 1), Run(" ", 1), Run("those", 1),
            Run(" ", 1), Run("products", 1)>>
QWhyThose == <<Run("why", 1), Run(" ", 1), Run("did", 1), Run(" ", 1), Run("traffic", 1),
               Run(" ", 1), Run("for", 1), Run(" ", 1), Run("those", 1), Run(" ", 1),
               Run("products", 1), Run(" ", 1), Run("drop", 1), Run(" ", 1), Run("wow", 1)>>
QUnits == <<Run("units", 1), Run(" ", 1), Run("last", 1), Run(" ", 1), Run("month", 1)>>
QWeather == <<Run("what", 1), Run(" ", 1), Run("weather", 1), Run(" ", 1), Run("tomorrow", 1)>>

ListStep(limit) == JObj([tool |-> JStr(ToolText("list_products")), args |-> JObj([limit |-> limit])])

\* {"route": route, "steps": steps}
PlanValue(route, steps) == JObj([route |-> JStr(RouteText(route)), steps |-> JArr(steps)])

\* A top_products step written with the aliases the schema accepts.
AliasStep ==
  JObj([tool |-> JStr(ToolText("top_products")),
        args |-> JObj([metric |-> JStr(<<Run(" ", 1), Run("Revenue", 1)>>),
                       start_date |-> JStr(<<Run("2025-01-06", 1), Run("T00:00:00.000Z", 1)>>),
                       endDate |-> JStr(Str("2025-01-12")),
                       limit |-> JNull,
                       topN |-> JStr(<<Run("5", 1), Run(" ", 1), Run("rows", 1)>>)])])

PlannerTexts ==
  {<<Prose>>,
   <<Prose, Quote("'"), Prose>> \o ObjText(PlanValue("data_presenter", <<ListStep(JNum(5))>>)),
   <<Open, Prose, Close>> \o ObjText(PlanValue("data_presenter", <<AliasStep>>)) \o <<Prose>>,
   ObjText(PlanValue("data_presenter", <<>>))
     \o ObjText(PlanValue("insight_generator", <<AliasStep, ListStep(JStr(Str("5")))>>)),
   <<Prose, Open, Members(Some(PlanValue("data_presenter", <<ListStep(JNum(500))>>)), TRUE),
     Close>>,
   <<Open, Members(None, FALSE), Close, Close, Open>>,
   ObjText(PlanValue("data_presenter", <<ListStep(JNum(0))>>))
     \o ObjText(PlanValue("data_presenter", <<ListStep(JNum(5))>>)),
   ObjText(PlanValue("data_presenter", <<ListStep(JFrac(5))>>)),
   ObjText(PlanValue("data_presenter",
                     <<JObj([tool |-> JStr(Str("weather")), args |-> JObj(EmptyObj)])>>)),
   ObjText(PlanValue("data_presenter",
                     <<JObj([tool |-> JStr(Str("constructor")), args |-> JObj(EmptyObj)])>>)),
   ObjText(PlanValue("data_presenter", <<JObj([tool |-> JStr(ToolText("benchmark"))])>>))}
  \cup {ObjText(PlanValue("data_presenter", [i \in 1..n |-> ListStep(JNum(i))]))
          : n \in (MaxSteps - 1)..MaxSteps}

PlannerInputs ==
  {[route |-> r, query |-> q, timeContext |-> getTimeContext("2025-01-15"), session |-> s]
     : r \in Routes, q \in {QTop, QTop5, QWhy, QThose, QUnits, QWhyThose},
       s \in {None, Some(<<Str("p1"), Str("p2")>>)}}
  \cup {[route |-> r, query |-> QThose, timeContext |-> getTimeContext("2025-01-19"),
          session |-> Some(<<>>)] : r \in Routes}

PlanReturned(llm, input, result) ==
  lastCall' = [op |-> "plan", threw |-> result.kind = "throw", llm |-> llm,
               input |-> input, result |-> result]

PlanCall(llm, input) ==
  /\ PlanReturned(llm, input, plan(llm, input))
  /\ UNCHANGED <<orch, runQuery, memory_items, memory_fts, tool_cache, runs, clock, ulids, runScenario>>

PlanNext ==
  \E llm \in {None} \cup {Some(text) : text \in PlannerTexts}, input \in PlannerInputs :
    PlanCall(llm, input)

SpecPlan == StoreInit /\ [][PlanNext]_vars

(***************************************************************************)
(* IaOrchestrator on a store: orchestrators are built, runQuery is called  *)
(* and runs stage by stage, the clock advances.  One runQuery is in flight *)
(* at a time.                                                              *)
(***************************************************************************)
\* Bound on the runQuery calls of a behaviour.
MaxRuns == 2

QTop2 == <<Run("top", 1), Run(" ", 1), Run("2", 1), Run(" ", 1), Run("products", 1),
           Run(" ", 1), Run("last", 1), Run(" ", 1), Run("week", 1)>>

\* The orchestrators built: without an LLM and without a cache namespace, or
\* with both.
OrchConfigs == {[llm |-> FALSE, ns |-> None], [llm |-> TRUE, ns |-> Some("ns")]}

\* What the planner's LLM answers: prose, or a plan of MaxSteps steps that
\* repeats a call.
LlmPlanTexts ==
  {<<Prose>>,
   ObjText(PlanValue("data_presenter",
                     <<JObj([tool |-> JStr(Str("constructor")), args |-> JObj(EmptyObj)])>>)),
   ObjText(PlanValue("data_presenter",
                     <<AliasStep, ListStep(JNum(5)), ListStep(JStr(Str("5")))>>
                     \o [i \in 1..(MaxSteps - 3) |-> ListStep(JNum(i))]))}

\* What the generator's LLM answers.
LlmNarratives == {<<Run(" ", 1), Run("sales", 1), Run(" ", 1), Run("bob@x.io", 1), Run("\n", 1)>>}

RunParams ==
  {[query |-> q, userId |-> "demo", mode |-> m, today |-> "2025-01-15", session |-> None]
     : q \in {QTop2}, m \in MemoryModes}
  \cup {[query |-> QWhy, userId |-> "demo", mode |-> m, today |-> "2025-01-15",
         session |-> None] : m \in {"baseline", "readwrite_cache"}}
  \cup {[query |-> QWeather, userId |-> "demo", mode |-> m, today |-> "2025-01-15",
         session |-> Some(<<Str("p1")>>)] : m \in {"baseline", "readwrite_cache"}}
  \cup {[query |-> QThose, userId |-> "demo", mode |-> "readwrite", today |-> "2025-01-19",
         session |-> s] : s \in {None, Some(<<Str("p1"), Str("p2")>>)}}

\* An item the host has stored that expires at instant 1.
ExpiringInput ==
  [DefaultInput EXCEPT !.scope = "user:demo", !.kind = "user_preference",
                       !.text = <<Run("daily", 1), Run(" ", 1), Run("sales", 1)>>,
                       !.expiresAt = Some(1)]

Idle == runQuery.pc \in {"idle", "done", "failed"}

\* new IaOrchestrator(opts): ensureDefaultDomainRules upserts the rule
Constructed(res) ==
  /\ memory_items' = res.items
  /\ memory_fts' = res.fts

Construct(cfg) ==
  /\ Idle
  /\ orch # Some(cfg)
  /\ runQuery.n = 1
  /\ orch' = Some(cfg)
  /\ Constructed(UpsertResult(memory_items, memory_fts, DefaultRuleInput(clock), clock,
                              Ulid(ulids + 1)))
  /\ UNCHANGED <<tool_cache, runs, clock, ulids, lastCall, runQuery, runScenario>>

\* The host stores an item of its own between two runs
HostUpserted(res) ==
  /\ ~res.threw
  /\ memory_items' = res.items
  /\ memory_fts' = res.fts
  /\ ulids' = IF res.usedUlid THEN ulids + 1 ELSE ulids

HostUpsert ==
  /\ Idle
  /\ runQuery.n = 0
  /\ ~\E r \in memory_items : r.kind = "user_preference"
  /\ HostUpserted(UpsertResult(memory_items, memory_fts, ExpiringInput, clock,
                               Ulid(ulids + 1)))
  /\ UNCHANGED <<tool_cache, runs, clock, lastCall, orch, runQuery, runScenario>>

\* runQuery(params) up to the call of the leverager: lines 34-45
Started(params) ==
  /\ ulids' = ulids + 1
  /\ runQuery' =
       [pc |-> "manager", n |-> runQuery.n + 1, id |-> Ulid(ulids + 1), createdAt |-> clock,
        params |-> params, session |-> params.session,
        augmentedQuery |-> augmentQueryWithTimeContext(params.query,
                                                       getTimeContext(params.today)),
        memoryInjected |-> [manager_route |-> <<>>, workflow_plan |-> <<>>,
                            insight_generate |-> <<>>],
        passed |-> [manager |-> None, planner |-> None, generator |-> None],
        decision |-> None, plan |-> None, usedFallback |-> FALSE, toolCalls |-> None,
        invoked |-> <<>>, lookups |-> <<>>, thrownBy |-> None, completion |-> None,
        rawText |-> None,
        responseText |-> None, scores |-> None, trace |-> <<"augment">>,
        before |-> [items |-> memory_items, cache |-> tool_cache, runs |-> runs]]

\* The host calls runQuery
StartRun(params) ==
  /\ Idle
  /\ orch # None
  /\ runQuery.n < MaxRuns
  /\ Started(params)
  /\ UNCHANGED <<memory_items, memory_fts, tool_cache, runs, clock, lastCall, orch, runScenario>>

\* What a stage's retrieval can give: nothing in baseline mode
StageRetrieval(stage) ==
  IF RetrievalEnabled(runQuery.params.mode)
    THEN Retrieve(memory_items, memory_fts, stage, runQuery.params.query,
                  <<"global", "user:" \o runQuery.params.userId>>, clock)
    ELSE {[threw |-> FALSE, cards |-> <<>>, items |-> memory_items]}

\* The step of a tool_calls list at which the dataset may fail (0: nowhere).
MaxFaultStep == 2
ToolFaults == 0..MaxFaultStep

\* llm.complete returns a completion or rejects (a transport error); without
\* an LLM there is no call.
LlmRejects == IF orch[1].llm THEN BOOLEAN ELSE {FALSE}

\* The run ends in the exception a call has thrown: runQuery has no try/catch
Fail(by) == runQuery' = [runQuery EXCEPT !.thrownBy = Some(by), !.pc = "failed"]

\* lines 47-58: the manager's cards and the manager's decision
Routed(out, decision) ==
  IF out.threw THEN Fail("search") /\ UNCHANGED memory_items
  ELSE /\ memory_items' = out.items
       /\ runQuery' = [runQuery EXCEPT
              !.memoryInjected.manager_route = out.cards,
              !.passed.manager = Some(out.cards),
              !.decision = Some(decision),
              !.trace = Append(@, "manager_route"),
              !.pc = IF decision.ood \/ decision.route = None THEN "ood" ELSE "worker"]

ManagerRoute ==
  /\ runQuery.pc = "manager"
  /\ \E out \in StageRetrieval("manager_route") :
       Routed(out, decide(orch[1].llm, runQuery.params.query, None))
  /\ UNCHANGED <<memory_fts, tool_cache, runs, clock, ulids, lastCall, orch, runScenario>>

\* this.store.insertRun({...}); return result
Recorded(r, ood) ==
  /\ runQuery' = r
  /\ runs' = insertRun(runs, RunRow(r, ood))

\* lines 58-85: the out-of-scope answer and its run record
OodRecord ==
  /\ runQuery.pc = "ood"
  /\ Recorded([runQuery EXCEPT !.responseText = Some(redactPII(OodResponse)),
                               !.trace = Append(@, "ood") \o <<"record">>,
                               !.pc = "done"], TRUE)
  /\ UNCHANGED <<memory_items, memory_fts, tool_cache, clock, ulids, lastCall, orch, runScenario>>

\* lines 89-93: the worker's cards
WorkerRetrieve ==
  /\ runQuery.pc = "worker"
  /\ \E out \in StageRetrieval("workflow_plan") :
       IF out.threw THEN Fail("search") /\ UNCHANGED memory_items
       ELSE /\ memory_items' = out.items
            /\ runQuery' = [runQuery EXCEPT
                   !.memoryInjected.workflow_plan = out.cards,
                   !.trace = Append(@, "worker_retrieve"),
                   !.pc = IF runQuery.decision[1].route = Some("data_presenter")
                            THEN "plan" ELSE "generator"]
  /\ UNCHANGED <<memory_fts, tool_cache, runs, clock, ulids, lastCall, orch, runScenario>>

\* lines 124-128: the generator's cards
GeneratorRetrieve ==
  /\ runQuery.pc = "generator"
  /\ \E out \in StageRetrieval("insight_generate") :
       IF out.threw THEN Fail("search") /\ UNCHANGED memory_items
       ELSE /\ memory_items' = out.items
            /\ runQuery' = [runQuery EXCEPT
                   !.memoryInjected.insight_generate = out.cards,
                   !.trace = Append(@, "generator_retrieve"),
                   !.pc = "plan"]
  /\ UNCHANGED <<memory_fts, tool_cache, runs, clock, ulids, lastCall, orch, runScenario>>

\* memoryCards of agent.run: workerMem, or [...workerMem, ...genMem]
AgentCards ==
  IF runQuery.decision[1].route = Some("data_presenter")
    THEN runQuery.memoryInjected.workflow_plan
    ELSE runQuery.memoryInjected.workflow_plan \o runQuery.memoryInjected.insight_generate

\* agent.run: this.planner.plan(...)
Planned(out, completion) ==
  IF out.kind = "throw"
    THEN runQuery' = [runQuery EXCEPT !.passed.planner = Some(AgentCards),
                                      !.completion = completion,
                                      !.thrownBy = Some("planner"), !.pc = "failed"]
  ELSE runQuery' = [runQuery EXCEPT !.passed.planner = Some(AgentCards),
                                    !.completion = completion,
                                    !.plan = Some(out.plan),
                                    !.usedFallback = out.usedFallback,
                                    !.rawText = PlannerRawText(out),
                                    !.trace = Append(@, "plan"),
                                    !.pc = "execute"]

Plan ==
  /\ runQuery.pc = "plan"
  /\ \E completion \in IF orch[1].llm THEN {Some(text) : text \in LlmPlanTexts} ELSE {None},
        rejects \in LlmRejects :
       IF rejects
         THEN runQuery' = [runQuery EXCEPT !.passed.planner = Some(AgentCards),
                                           !.thrownBy = Some("llm"), !.pc = "failed"]
         ELSE Planned(plan(completion,
                           [route |-> runQuery.decision[1].route[1],
                            query |-> runQuery.params.query,
                            timeContext |-> getTimeContext(runQuery.params.today),
                            session |-> runQuery.session]),
                      completion)
  /\ UNCHANGED <<memory_items, memory_fts, tool_cache, runs, clock, ulids, lastCall, orch, runScenario>>

\* An agent that caught the exception of the executor and answered with the
\* calls made so far.
ExecutedAndCaught(out) ==
  /\ tool_cache' = out.cache
  /\ runQuery' = [runQuery EXCEPT !.toolCalls = Some(out.toolCalls),
                                  !.invoked = out.invoked,
                                  !.lookups = out.lookups,
                                  !.trace = Append(@, "execute"),
                                  !.pc = "respond"]

\* agent.run: this.executor.execute(plan); an exception of the executor is
\* caught nowhere and ends the run, the cache keeping what was written through
Executed(out) ==
  /\ tool_cache' = out.cache
  /\ IF out.threw
       THEN runQuery' = [runQuery EXCEPT !.invoked = out.invoked, !.lookups = out.lookups,
                                         !.thrownBy = Some("tool"), !.pc = "failed"]
       ELSE runQuery' = [runQuery EXCEPT !.toolCalls = Some(out.toolCalls),
                                         !.invoked = out.invoked,
                                         !.lookups = out.lookups,
                                         !.trace = Append(@, "execute"),
                                         !.pc = "respond"]

ExecutePlan ==
  /\ runQuery.pc = "execute"
  /\ \E faultAt \in ToolFaults :
       Executed(execute(tool_cache, runQuery.plan[1], CacheEnabled(runQuery.params.mode),
                        orch[1].ns, clock, faultAt))
  /\ UNCHANGED <<memory_items, memory_fts, runs, clock, ulids, lastCall, orch, runScenario>>

\* agent.run: the answer and the session; line 153: redactPII(responseText)
Respond ==
  /\ runQuery.pc = "respond"
  /\ IF runQuery.decision[1].route = Some("data_presenter")
       THEN runQuery' = [runQuery EXCEPT
              !.session = NextSession(@, runQuery.toolCalls[1]),
              !.responseText = Some(redactPII(renderDataPresenterResponse(
                                                runQuery.plan[1], runQuery.toolCalls[1]))),
              !.trace = Append(@, "respond"),
              !.pc = "evaluate"]
       ELSE \E completion \in IF orch[1].llm THEN {Some(text) : text \in LlmNarratives}
                              ELSE {None},
               rejects \in LlmRejects :
              IF rejects
                THEN runQuery' = [runQuery EXCEPT !.passed.generator = Some(AgentCards),
                                                  !.thrownBy = Some("llm"), !.pc = "failed"]
                ELSE runQuery' = [runQuery EXCEPT
                       !.passed.generator = Some(AgentCards),
                       !.responseText = Some(redactPII(generateNarrative(runQuery.plan[1],
                                                                        completion))),
                       !.trace = Append(@, "respond"),
                       !.pc = "evaluate"]
  /\ UNCHANGED <<memory_items, memory_fts, tool_cache, runs, clock, ulids, lastCall, orch, runScenario>>

\* line 156: this.evaluator.evaluate(...)
Evaluate ==
  /\ runQuery.pc = "evaluate"
  /\ runQuery' = [runQuery EXCEPT
       !.scores = evaluate(runQuery.params.query, runQuery.toolCalls[1],
                           runQuery.params.today),
       !.trace = Append(@, "evaluate"),
       !.pc = IF WritesEnabled(runQuery.params.mode) THEN "write" ELSE "record"]
  /\ UNCHANGED <<memory_items, memory_fts, tool_cache, runs, clock, ulids, lastCall, orch, runScenario>>

\* lines 160-169: the run as proposeMemoryWrites is given it
EvaluatedRun(r) ==
  [userId |-> r.params.userId, query |-> r.params.query, route |-> r.decision[1].route[1],
   plan |-> r.plan[1], toolCalls |-> r.toolCalls[1], scores |-> r.scores]

\* The statement of the write stage at which the store fails (the database
\* is locked, full or closed): none, the first upsertMemoryItem of
\* applyMemoryWrites, or the SELECT of maintenance.
StoreFaults == {"none", "write", "maintenance"}

\* lines 159-172: what applyMemoryWrites leaves, then store.maintenance; an
\* exception of either is caught nowhere and ends the run
Written(res, fault) ==
  /\ ulids' = res.ulids
  /\ IF res.threw \/ fault = "maintenance"
       THEN /\ memory_items' = res.items
            /\ memory_fts' = res.fts
            /\ Fail("store")
       ELSE /\ memory_items' = res.items \ ExpiredRows(res.items, clock)
            /\ memory_fts' = {f \in res.fts :
                                f.id \notin {r.id : r \in ExpiredRows(res.items, clock)}}
            /\ runQuery' = [runQuery EXCEPT !.trace = Append(@, "write"), !.pc = "record"]

\* applyMemoryWrites has drawn its first ulid, and upsertMemoryItem throws
WriteFailed(writes) ==
  /\ writes # <<>>
  /\ ulids' = ulids + 1
  /\ Fail("store")
  /\ UNCHANGED <<memory_items, memory_fts>>

WriteMemory ==
  /\ runQuery.pc = "write"
  /\ \E fault \in StoreFaults :
       IF fault = "write"
         THEN WriteFailed(proposeMemoryWrites(EvaluatedRun(runQuery)))
         ELSE Written(applyMemoryWrites(memory_items, memory_fts,
                                        proposeMemoryWrites(EvaluatedRun(runQuery)), 1, clock,
                                        ulids),
                      fault)
  /\ UNCHANGED <<tool_cache, runs, clock, lastCall, orch, runScenario>>

\* lines 174-212: the run record, and the return
Record ==
  /\ runQuery.pc = "record"
  /\ Recorded([runQuery EXCEPT !.trace = Append(@, "record"), !.pc = "done"], FALSE)
  /\ UNCHANGED <<memory_items, memory_fts, tool_cache, clock, ulids, lastCall, orch, runScenario>>

\* The store a process opens, and the first orchestrator built on it
Opened(cfg, res) ==
  /\ memory_items = res.items
  /\ memory_fts = res.fts
  /\ tool_cache = {}
  /\ runs = <<>>
  /\ clock = 0
  /\ ulids = 0
  /\ lastCall = [op |-> "open", threw |-> FALSE]
  /\ orch = Some(cfg)
  /\ runQuery = [pc |-> "idle", n |-> 0]
  /\ runScenario = [pc |-> "idle"]

Init ==
  \E cfg \in OrchConfigs : Opened(cfg, UpsertResult({}, {}, DefaultRuleInput(0), 0, Ulid(1)))

Next ==
  \/ \E cfg \in OrchConfigs : Construct(cfg)
  \/ HostUpsert
  \/ \E params \in RunParams : StartRun(params)
  \/ ManagerRoute
  \/ OodRecord
  \/ WorkerRetrieve
  \/ GeneratorRetrieve
  \/ Plan
  \/ ExecutePlan
  \/ Respond
  \/ Evaluate
  \/ WriteMemory
  \/ Record
  \/ Idle /\ Tick

Spec == Init /\ [][Next]_vars

(***************************************************************************)
(* IaOrchestrator on queries that hold an email address, a phone number or *)
(* a card number.  The tokenizers take each of the three for a separator:  *)
(* no row of memory_fts holds one, so the tokens they would give match     *)
(* nothing.                                                                *)
(***************************************************************************)
QMailTop == QTop2 \o <<Run(" ", 1), Run("bob@x.io", 1)>>
QPhoneWeather == QWeather \o <<Run(" ", 1), Run("5551234567", 1)>>
QCardWhy == QWhy \o <<Run(" ", 1), Run("4111111111111111", 1)>>

RedactionParams ==
  {[query |-> QMailTop, userId |-> "demo", mode |-> "readwrite", today |-> "2025-01-15",
    session |-> None],
   [query |-> QPhoneWeather, userId |-> "demo", mode |-> "readwrite_cache",
    today |-> "2025-01-15", session |-> None],
   [query |-> QCardWhy, userId |-> "demo", mode |-> "readwrite", today |-> "2025-01-15",
    session |-> None]}

RedactionNext ==
  \/ \E params \in RedactionParams : StartRun(params)
  \/ ManagerRoute
  \/ OodRecord
  \/ WorkerRetrieve
  \/ GeneratorRetrieve
  \/ Plan
  \/ ExecutePlan
  \/ Respond
  \/ Evaluate
  \/ WriteMemory
  \/ Record

SpecRedaction == Init /\ [][RedactionNext]_vars

(***************************************************************************)
(* MemoryEvaluator as a function of its inputs: evaluate is called on a    *)
(* query and the records of a list of tool calls, proposeMemoryWrites on a *)
(* run.                                                                    *)
(***************************************************************************)
\* A range of the sample in which no order was taken.
EmptyRange == [startDate |-> Str("2025-01-31"), endDate |-> Str("2025-01-31")]

TimeseriesStep(metric, ids, range) ==
  Step("timeseries", [metric |-> JStr(metric), productIds |-> JArr(ids),
                      startDate |-> JStr(range.startDate), endDate |-> JStr(range.endDate),
                      grain |-> JStr(Str("day"))])

ChangesStep ==
  Step("compute_changes",
       [points |-> JArr(<<JObj([date |-> JStr(Str("2025-01-06")), value |-> JNum(20)]),
                          JObj([date |-> JStr(Str("2025-01-13")), value |-> JNum(5)])>>)])

\* The records the executor leaves of a list of steps, the cache being off
RecordsOf(steps) == execute({}, [steps |-> steps], FALSE, None, 0, 0).toolCalls

\* The lists of steps whose records the evaluator is handed
EvaluatorSteps ==
  LET ctx == getTimeContext("2025-01-15")
      lastWeek == [startDate |-> ctx.lastWeekStart, endDate |-> ctx.lastWeekEnd]
      thisWeek == [startDate |-> ctx.thisWeekStart, endDate |-> ctx.thisWeekEnd]
      thisMonth == [startDate |-> ctx.thisMonthStart, endDate |-> ctx.thisMonthEnd]
      lastMonth == [startDate |-> ctx.lastMonthStart, endDate |-> ctx.lastMonthEnd]
      both == <<JStr(Str("p1")), JStr(Str("p2"))>>
  IN {<<>>,
      <<TopProductsStep(Str("sales"), lastWeek, 2)>>,
      <<TopProductsStep(Str("units"), lastWeek, 2)>>,
      <<TopProductsStep(Str("sales"), thisMonth, 1)>>,
      <<TopProductsStep(Str("sales"), EmptyRange, 2)>>,
      <<Step("list_products", [limit |-> JNum(20)])>>,
      <<TimeseriesStep(Str("sessions"), both, lastMonth)>>,
      <<TimeseriesStep(Str("sessions"), both, EmptyRange)>>,
      <<TimeseriesStep(Str("sales"), <<JStr(Str("p1"))>>, thisMonth)>>,
      <<TimeseriesStep(Str("sales"), both, thisWeek), ChangesStep>>,
      <<ChangesStep>>,
      <<TopProductsStep(Str("sales"), lastWeek, 50), TopProductsStep(Str("sales"), thisWeek, 50)>>,
      <<TopProductsStep(Str("sales"), lastWeek, 50), TopProductsStep(Str("sales"), thisWeek, 50),
        TimeseriesStep(Str("sales"), both, thisWeek), ChangesStep>>,
      <<TopProductsStep(Str("sales"), [startDate |-> Str("2026-02-01"),
                                       endDate |-> Str("2026-02-28")], 5)>>,
      <<TopProductsStep(Str("sales"), [startDate |-> Str("2026-01-26"),
                                       endDate |-> Str("2026-02-01")], 2)>>}

\* The days on which the evaluator is called: those of the runs, and the day
\* of the evaluator's test, on which the month has no order yet
EvaluatorTodays == Todays \cup {"2026-02-04"}

EvaluatorQueries == {QTop, QTop2, QTop5, QWhy, QThose, QUnits, QWeather}

\* The qualities of the runs handed to proposeMemoryWrites, in thousandths
QualityPoints == {0, 70, 499, 500, 501, 650, 799, 800, 801, 1000}

\* The runs handed to proposeMemoryWrites that no evaluation has scored
ProposeInputs ==
  {[userId |-> u, query |-> q, route |-> "data_presenter",
    plan |-> [route |-> "data_presenter", timeRange |-> None, steps |-> steps, notes |-> None],
    toolCalls |-> RecordsOf(steps), scores |-> s]
     : u \in {"demo", "u2"}, q \in {QTop2, QThose},
       steps \in {<<>>, <<TopProductsStep(Str("sales"), EmptyRange, 2)>>,
                  <<TimeseriesStep(Str("sessions"), <<JStr(Str("p1"))>>, EmptyRange)>>},
       s \in {None} \cup {Some(Scores(q3, q3, q3, q3, <<"Low.">>)) : q3 \in QualityPoints}}

EvaluateCall(query, steps, today) ==
  /\ lastCall' = [op |-> "evaluate", threw |-> FALSE, query |-> query, steps |-> steps,
                  today |-> today, toolCalls |-> RecordsOf(steps),
                  scores |-> evaluate(query, RecordsOf(steps), today)]
  /\ UNCHANGED <<orch, runQuery, memory_items, memory_fts, tool_cache, runs, clock, ulids, runScenario>>

ProposeCall(run) ==
  /\ lastCall' = [op |-> "proposeMemoryWrites", threw |-> FALSE, run |-> run,
                  writes |-> proposeMemoryWrites(run)]
  /\ UNCHANGED <<orch, runQuery, memory_items, memory_fts, tool_cache, runs, clock, ulids, runScenario>>

\* The run an orchestrator hands to proposeMemoryWrites after the evaluation
\* lastCall tells of
ScoredRun(userId) ==
  [userId |-> userId, query |-> lastCall.query, route |-> "data_presenter",
   plan |-> [route |-> "data_presenter", timeRange |-> None, steps |-> lastCall.steps,
             notes |-> None],
   toolCalls |-> lastCall.toolCalls, scores |-> lastCall.scores]

ProposeScored ==
  /\ lastCall.op = "evaluate"
  /\ \E userId \in {"demo", "u2"} : ProposeCall(ScoredRun(userId))

EvaluatorNext ==
  \/ \E query \in EvaluatorQueries, steps \in EvaluatorSteps, today \in EvaluatorTodays :
       EvaluateCall(query, steps, today)
  \/ \E run \in ProposeInputs : ProposeCall(run)
  \/ ProposeScored

SpecEvaluator == StoreInit /\ [][EvaluatorNext]_vars

(***************************************************************************)
(* DataPresenterAgent.run without an LLM, on datasets of several sizes,    *)
(* and the plan of the query that follows with the session it returned.    *)
(***************************************************************************)
\* Bound on the products of a dataset that sold in the range asked for.
MaxProducts == 21

QTop25 == <<Run("top", 1), Run(" ", 1), Run("2", 1), Run("5", 1), Run(" ", 1),
            Run("products", 1), Run(" ", 1), Run("last", 1), Run(" ", 1), Run("month", 1)>>

\* The products of a dataset of count products that have rows in the range:
\* p1, the best, has none from 2025-01-13 on, the others have rows every day
FirstRanked(args) == IF args.startDate.s = Str("2025-01-13") THEN 2 ELSE 1

\* topProducts on such a dataset, the i-th best of the products being p<i>
RankedRows(count, args) ==
  [i \in 1..Min(Max(1, Min(100, args.limit.n)), count - FirstRanked(args) + 1) |->
     JObj([productId |-> JStr(Str("p" \o ToString(i + FirstRanked(args) - 1))),
           metric |-> args.metric,
           metricValue |-> JNum(count - i + 1)])]

\* The record the executor leaves of a step on such a dataset
PresenterRecord(step, count) ==
  [tool |-> RegistryLookup(step.tool).name, args |-> step.args[1],
   signature |-> toolSignature(RegistryLookup(step.tool).name, step.args[1], None),
   cached |-> FALSE, startedAt |-> 0,
   result |-> IF RegistryLookup(step.tool).name = "top_products"
                THEN JObj([rows |-> JArr(RankedRows(count, step.args[1].o))])
                ELSE Execute(RegistryLookup(step.tool).name, step.args[1])]

PresenterInput(query, session) ==
  [route |-> "data_presenter", query |-> query, timeContext |-> getTimeContext("2025-01-15"),
   session |-> session]

\* DataPresenterAgent.run once the plan is made: the calls and the session
AgentRan(query, session, workflow, toolCalls) ==
  lastCall' = [op |-> "run", threw |-> FALSE, query |-> query, session |-> session,
               plan |-> workflow, toolCalls |-> toolCalls,
               responseText |-> renderDataPresenterResponse(workflow, toolCalls),
               listed |-> ListedProductIds(toolCalls),
               sessionState |-> NextSession(session, toolCalls)]

AgentPlanned(query, session, workflow, count) ==
  AgentRan(query, session, workflow,
           [i \in DOMAIN workflow.steps |-> PresenterRecord(workflow.steps[i], count)])

AgentRun(query, session, count) ==
  /\ AgentPlanned(query, session, plan(None, PresenterInput(query, session)).plan, count)
  /\ UNCHANGED <<orch, runQuery, memory_items, memory_fts, tool_cache, runs, clock, ulids, runScenario>>

\* The planner on the query that follows a run, with the session it returned
FollowingPlan(query) ==
  /\ lastCall.op = "run"
  /\ lastCall' = [op |-> "plan", threw |-> FALSE, llm |-> None,
                  input |-> PresenterInput(query, lastCall.sessionState),
                  result |-> plan(None, PresenterInput(query, lastCall.sessionState)),
                  after |-> lastCall]
  /\ UNCHANGED <<orch, runQuery, memory_items, memory_fts, tool_cache, runs, clock, ulids, runScenario>>

PresenterNext ==
  \/ \E query \in {QTop2, QTop, QTop25, QUnits, QWhy},
        session \in {None, Some(<<Str("p9")>>)},
        count \in {0, 1, 2, MaxProducts} : AgentRun(query, session, count)
  \/ \E query \in {QThose, QWhyThose, QTop5} : FollowingPlan(query)

SpecPresenter == StoreInit /\ [][PresenterNext]_vars

(***************************************************************************)
(* ManagerAgent.decide called directly, with and without an LLM, whatever  *)
(* the LLM would answer.                                                   *)
(***************************************************************************)
\* "why did Revenue drop", "benchmark", "sales weather", "top products",
\* "compare insights", "show top"
QWhyRevenue ==
  <<Run("why", 1), Run(" ", 1), Run("did", 1), Run(" ", 1), Run("Revenue", 1), Run(" ", 1),
    Run("drop", 1)>>
QBenchmark == Str("benchmark")
QSalesWeather == <<Run("sales", 1), Run(" ", 1), Run("weather", 1)>>
QTopProducts == <<Run("top", 1), Run(" ", 1), Run("products", 1)>>
QCompareInsights == <<Run("compare", 1), Run(" ", 1), Run("insights", 1)>>
QWeeksInsights == <<Run("Weeks", 1), Run(" ", 1), Run("Insights", 1)>>

ManagerQueries ==
  {QTop, QTop2, QTop5, QTop25, QWhy, QThose, QUnits, QWeather, QWhyThose, QWhyRevenue,
   QBenchmark, QSalesWeather, QTopProducts, QCompareInsights, QWeeksInsights, <<>>}

\* What safeParseJsonDecision makes of the text an LLM returns: null or a
\* decision.
ManagerCompletions ==
  {None, Some([ood |-> TRUE, route |-> None])}
  \cup {Some([ood |-> FALSE, route |-> Some(r)]) : r \in {"data_presenter", "insight_generator"}}

\* new ManagerAgent(llm).decide({query}), the LLM answering completion if it
\* is asked.
Decide(llm, query, completion) ==
  /\ lastCall' = [op |-> "decide", threw |-> FALSE, llm |-> llm, query |-> query,
                  completion |-> completion, asked |-> CallsLlm(llm, query),
                  decision |-> decide(llm, query, completion)]
  /\ UNCHANGED <<orch, runQuery, memory_items, memory_fts, tool_cache, runs, clock, ulids,
                 runScenario>>

ManagerNext ==
  \E llm \in BOOLEAN, query \in ManagerQueries, completion \in ManagerCompletions :
    Decide(llm, query, completion)

SpecManager == StoreInit /\ [][ManagerNext]_vars

(***************************************************************************)
(* The tool cache called with signatures of toolSignature: setToolCache    *)
(* and getToolCache on args and results whose objects keep the order of    *)
(* their keys.                                                             *)
(***************************************************************************)
\* The setToolCache calls made in one behaviour.
MaxCacheSets == 2

Prop(key, value) == [k |-> key, v |-> value]

\* {metric, limit}, the same with the keys the other way round, and with
\* another limit.
ArgsMetricLimit == JKeyed(<<Prop("metric", JStr(Str("sales"))), Prop("limit", JNum(2))>>)
ArgsLimitMetric == JKeyed(<<Prop("limit", JNum(2)), Prop("metric", JStr(Str("sales")))>>)
ArgsOtherLimit == JKeyed(<<Prop("limit", JNum(3)), Prop("metric", JStr(Str("sales")))>>)

\* {range: {startDate, endDate}, limit} and the same with the keys of both
\* objects the other way round.
ArgsNested ==
  JKeyed(<<Prop("range", JKeyed(<<Prop("startDate", JStr(Str("2025-01-01"))),
                                  Prop("endDate", JStr(Str("2025-01-31")))>>)),
           Prop("limit", JNum(2))>>)
ArgsNestedSwapped ==
  JKeyed(<<Prop("limit", JNum(2)),
           Prop("range", JKeyed(<<Prop("endDate", JStr(Str("2025-01-31"))),
                                  Prop("startDate", JStr(Str("2025-01-01")))>>))>>)

\* What toolSignature is called with: tool, args, namespace.
CacheCalls ==
  {[tool |-> "top_products", args |-> a, namespace |-> None]
     : a \in {ArgsMetricLimit, ArgsLimitMetric, ArgsOtherLimit, ArgsNested, ArgsNestedSwapped}}
  \cup {[tool |-> "top_products", args |-> ArgsMetricLimit, namespace |-> Some("run1")],
        [tool |-> "timeseries", args |-> ArgsLimitMetric, namespace |-> None]}

\* Results: null, a number, a string, an array, an object with its keys out
\* of order, and an object with an own property "__proto__" (as JSON.parse
\* makes of {"__proto__": 1, "limit": 2}).
CacheResults ==
  {JNull, JNum(7), JStr(Str("done")),
   JKeyed(<<Prop("rows", JArr(<<ArgsMetricLimit, ArgsOtherLimit>>)), Prop("limit", JNum(2))>>),
   JKeyed(<<Prop("__proto__", JNum(1)), Prop("limit", JNum(2))>>)}

\* The setToolCache calls made so far, oldest first.
CacheLog == IF "log" \in DOMAIN lastCall THEN lastCall.log ELSE <<>>

\* sig = toolSignature(tool, args, namespace); setToolCache(tool, sig, args, result)
SetToolCache(call, result, t) ==
  /\ Len(CacheLog) < MaxCacheSets
  /\ tool_cache' = setToolCache(tool_cache, call.tool,
                                toolSignature(call.tool, call.args, call.namespace),
                                call.args, result, t)
  /\ lastCall' = [op |-> "setToolCache", threw |-> FALSE,
                  log |-> Append(CacheLog,
                                 [tool |-> call.tool, args |-> call.args,
                                  namespace |-> call.namespace,
                                  signature |-> toolSignature(call.tool, call.args,
                                                              call.namespace),
                                  result |-> result])]
  /\ UNCHANGED <<orch, runQuery, memory_items, memory_fts, runs, clock, ulids, runScenario>>

\* getToolCache(toolSignature(tool, args, namespace))
GetToolCache(call) ==
  /\ lastCall' = [op |-> "getToolCache", threw |-> FALSE,
                  signature |-> toolSignature(call.tool, call.args, call.namespace),
                  returned |-> getToolCache(tool_cache,
                                            toolSignature(call.tool, call.args,
                                                          call.namespace)),
                  log |-> CacheLog]
  /\ UNCHANGED <<orch, runQuery, memory_items, memory_fts, tool_cache, runs, clock, ulids,
                 runScenario>>

CacheNext ==
  \/ \E call \in CacheCalls, result \in CacheResults, t \in 0..MaxClock :
       SetToolCache(call, result, t)
  \/ \E call \in CacheCalls : GetToolCache(call)

SpecCache == StoreInit /\ [][CacheNext]_vars

(***************************************************************************)
(* scenarios/runner.ts: ScenarioRunner.runScenario.  The runner opens one   *)
(* store per config; while a config is in progress the store variables are *)
(* those of its store.                                                     *)
(***************************************************************************)
\* The runners built (with or without an LLM) and what runScenario is
\* called with; repeat is optional.
ScenarioCalls ==
  {[cfg |-> [llm |-> FALSE, ns |-> None],
    opts |-> [steps |-> <<QTop2, QThose>>, today |-> "2025-01-15", userId |-> "demo",
              configs |-> <<"baseline", "readwrite_cache">>, repeat |-> None]],
   [cfg |-> [llm |-> FALSE, ns |-> None],
    opts |-> [steps |-> <<QWeather, QWhy>>, today |-> "2025-01-15", userId |-> "demo",
              configs |-> <<"read", "readwrite">>, repeat |-> Some(0)]],
   [cfg |-> [llm |-> TRUE, ns |-> Some("ns")],
    opts |-> [steps |-> <<QTop2>>, today |-> "2025-01-15", userId |-> "demo",
              configs |-> <<"readwrite", "baseline">>, repeat |-> Some(1)]]}

\* The total of a list of numbers.
RECURSIVE Total(_)
Total(values) ==
  IF values = <<>> THEN 0 ELSE values[1] + Total(SubSeq(values, 2, Len(values)))

\* [...values].sort((a, b) => a - b)
RECURSIVE SortAscending(_)
SortAscending(values) ==
  IF values = <<>> THEN <<>>
  ELSE LET rest == SortAscending(SubSeq(values, 1, Len(values) - 1))
           x == values[Len(values)]
           k == Cardinality({j \in DOMAIN rest : rest[j] <= x})
       IN SubSeq(rest, 1, k) \o <<x>> \o SubSeq(rest, k + 1, Len(rest))

\* percentile(values, p) for p = tenths / 10: sorted[floor((n - 1) * p)]
\* percentile without the sort: the element at the index in the order given
percentileUnsorted(values, tenths) ==
  IF values = <<>> THEN None
  ELSE Some(values[(((Len(values) - 1) * tenths) \div 10) + 1])

percentile(values, tenths) ==
  IF values = <<>> THEN None
  ELSE Some(SortAscending(values)[(((Len(values) - 1) * tenths) \div 10) + 1])

\* A quotient a / b, kept as the pair it is made of.
Ratio(a, b) == [num |-> a, den |-> b]

\* lines 83-98: what the runner keeps of the result of step i of a pass
\* The row of a step with false in place of null for a result without scores
ScenarioRowFalseWhenUnscored(result, pass, i, stepCount, latencyMs) ==
  [stepIndex |-> pass * stepCount + (i - 1),
   query |-> result.params.query,
   runId |-> result.id,
   toolCalls |-> IF result.toolCalls = None THEN 0 ELSE Len(result.toolCalls[1]),
   cachedToolCalls |->
     IF result.toolCalls = None THEN 0
     ELSE Cardinality({k \in DOMAIN result.toolCalls[1] : result.toolCalls[1][k].cached}),
   latencyMs |-> latencyMs,
   scores |-> result.scores,
   questionLevelAcc |->
     Some(/\ result.scores # None
          /\ result.scores[1].correctness > 800
          /\ result.scores[1].completeness > 800
          /\ result.scores[1].relevance > 800)]

ScenarioRow(result, pass, i, stepCount, latencyMs) ==
  [stepIndex |-> pass * stepCount + (i - 1),
   query |-> result.params.query,
   runId |-> result.id,
   toolCalls |-> IF result.toolCalls = None THEN 0 ELSE Len(result.toolCalls[1]),
   cachedToolCalls |->
     IF result.toolCalls = None THEN 0
     ELSE Cardinality({k \in DOMAIN result.toolCalls[1] : result.toolCalls[1][k].cached}),
   latencyMs |-> latencyMs,
   scores |-> result.scores,
   questionLevelAcc |->
     IF result.scores = None THEN None
     ELSE Some(/\ result.scores[1].correctness > 800
               /\ result.scores[1].completeness > 800
               /\ result.scores[1].relevance > 800)]

\* lines 102-123: the summary of a config
ScenarioSummary(config, rows) ==
  LET HasScores(r) == r.scores # None
      HasAcc(r) == r.questionLevelAcc # None
      IsAcc(r) == r.questionLevelAcc = Some(TRUE)
      qualities == SelectSeq(rows, HasScores)
      qAccs == SelectSeq(rows, HasAcc)
  IN [config |-> config,
      runs |-> rows,
      aggregate |->
        [avgQuality |->
           IF qualities = <<>> THEN None
           ELSE Some(Ratio(Total([k \in DOMAIN qualities |-> qualities[k].scores[1].quality]),
                           Len(qualities))),
         questionLevelAccRate |->
           IF qAccs = <<>> THEN None
           ELSE Some(Ratio(Len(SelectSeq(qAccs, IsAcc)), Len(qAccs))),
         toolCallsTotal |-> Total([k \in DOMAIN rows |-> rows[k].toolCalls]),
         cachedToolCallsTotal |-> Total([k \in DOMAIN rows |-> rows[k].cachedToolCalls]),
         p90LatencyMs |-> percentile([k \in DOMAIN rows |-> rows[k].latencyMs], 9)]]

\* runScenario(opts) on a runner built with cfg: lines 54-55
RunScenario(cfg, opts) ==
  /\ runScenario.pc = "idle"
  /\ runScenario' = [pc |-> "config", cfg |-> cfg, opts |-> opts,
                     repeat |-> Max(1, OrElse(opts.repeat, 2)),
                     c |-> 1, pass |-> 0, i |-> 1, session |-> None, t0 |-> clock,
                     rows |-> <<>>, summaries |-> <<>>]
  /\ UNCHANGED <<memory_items, memory_fts, tool_cache, runs, clock, ulids, lastCall, orch,
                 runQuery>>

\* lines 57-66: the store of the next config and the orchestrator built on it
ConfigOpened(res) ==
  /\ memory_items' = res.items
  /\ memory_fts' = res.fts
  /\ tool_cache' = {}
  /\ runs' = <<>>

OpenConfig ==
  /\ runScenario.pc = "config"
  /\ runScenario.c <= Len(runScenario.opts.configs)
  /\ ConfigOpened(UpsertResult({}, {}, DefaultRuleInput(clock), clock, Ulid(ulids + 1)))
  /\ orch' = Some(runScenario.cfg)
  /\ runScenario' = [runScenario EXCEPT !.pc = "step", !.pass = 0, !.i = 1,
                                        !.session = None, !.rows = <<>>]
  /\ UNCHANGED <<clock, ulids, lastCall, runQuery>>

\* lines 67-77: the runQuery call of the next step
CallRunQuery ==
  /\ runScenario.pc = "step"
  /\ runScenario.pass < runScenario.repeat
  /\ runScenario.i <= Len(runScenario.opts.steps)
  /\ Started([query |-> runScenario.opts.steps[runScenario.i],
              userId |-> runScenario.opts.userId,
              mode |-> runScenario.opts.configs[runScenario.c],
              today |-> runScenario.opts.today,
              session |-> runScenario.session])
  /\ runScenario' = [runScenario EXCEPT !.pc = "running", !.t0 = clock]
  /\ UNCHANGED <<memory_items, memory_fts, tool_cache, runs, clock, lastCall, orch>>

\* lines 78-98: runQuery has returned
CollectRun ==
  /\ runScenario.pc = "running"
  /\ runQuery.pc = "done"
  /\ runScenario' = [runScenario EXCEPT
       !.pc = "step",
       !.session = runQuery.session,
       !.rows = Append(@, ScenarioRow(runQuery, runScenario.pass, runScenario.i,
                                      Len(runScenario.opts.steps), clock - runScenario.t0)),
       !.i = @ + 1]
  /\ UNCHANGED <<memory_items, memory_fts, tool_cache, runs, clock, ulids, lastCall, orch,
                 runQuery>>

\* runQuery has rejected: the await of line 72 throws, nothing catches it, and
\* runScenario rejects without summaries and without closing the store
RejectScenario ==
  /\ runScenario.pc = "running"
  /\ runQuery.pc = "failed"
  /\ runScenario' = [runScenario EXCEPT !.pc = "rejected"]
  /\ UNCHANGED <<memory_items, memory_fts, tool_cache, runs, clock, ulids, lastCall, orch,
                 runQuery>>

\* A runner whose session outlives the pass
NextPassKeepingSession ==
  /\ runScenario.pc = "step"
  /\ runScenario.pass < runScenario.repeat
  /\ runScenario.i > Len(runScenario.opts.steps)
  /\ runScenario' = [runScenario EXCEPT !.pass = @ + 1, !.i = 1]
  /\ UNCHANGED <<memory_items, memory_fts, tool_cache, runs, clock, ulids, lastCall, orch,
                 runQuery>>

\* lines 67-69: the steps of a pass are done, the next pass has a new session
NextPass ==
  /\ runScenario.pc = "step"
  /\ runScenario.pass < runScenario.repeat
  /\ runScenario.i > Len(runScenario.opts.steps)
  /\ runScenario' = [runScenario EXCEPT !.pass = @ + 1, !.i = 1, !.session = None]
  /\ UNCHANGED <<memory_items, memory_fts, tool_cache, runs, clock, ulids, lastCall, orch,
                 runQuery>>

\* lines 102-125: the passes are done; the summary, and store.close()
Summarize ==
  /\ runScenario.pc = "step"
  /\ runScenario.pass >= runScenario.repeat
  /\ runScenario' = [runScenario EXCEPT
       !.pc = "config",
       !.summaries = Append(@, ScenarioSummary(runScenario.opts.configs[runScenario.c],
                                               runScenario.rows)),
       !.c = @ + 1]
  /\ orch' = None
  /\ UNCHANGED <<memory_items, memory_fts, tool_cache, runs, clock, ulids, lastCall, runQuery>>

\* line 128: return summaries
ReturnSummaries ==
  /\ runScenario.pc = "config"
  /\ runScenario.c > Len(runScenario.opts.configs)
  /\ runScenario' = [runScenario EXCEPT !.pc = "returned"]
  /\ UNCHANGED <<memory_items, memory_fts, tool_cache, runs, clock, ulids, lastCall, orch,
                 runQuery>>

ScenarioNext ==
  \/ \E call \in ScenarioCalls : RunScenario(call.cfg, call.opts)
  \/ OpenConfig
  \/ CallRunQuery
  \/ ManagerRoute
  \/ OodRecord
  \/ WorkerRetrieve
  \/ GeneratorRetrieve
  \/ Plan
  \/ ExecutePlan
  \/ Respond
  \/ Evaluate
  \/ WriteMemory
  \/ Record
  \/ CollectRun
  \/ RejectScenario
  \/ NextPass
  \/ Summarize
  \/ ReturnSummaries
  \/ runScenario.pc = "running" /\ runQuery.pc = "respond" /\ Tick

SpecScenario == StoreInit /\ [][ScenarioNext]_vars

(***************************************************************************)
(* llm/fake.ts: FakeLLMClient as the planner's LLM, and the scenarios run  *)
(* with it.                                                                *)
(***************************************************************************)
\* "What were the sales for my top 10 products last month?"
QSalesTop10 ==
  <<Run("What", 1), Run(" ", 1), Run("were", 1), Run(" ", 1), Run("the", 1), Run(" ", 1),
    Run("sales", 1), Run(" ", 1), Run("for", 1), Run(" ", 1), Run("my", 1), Run(" ", 1),
    Run("top", 1), Run(" ", 1), Run("1", 1), Run("0", 1), Run(" ", 1), Run("products", 1),
    Run(" ", 1), Run("last", 1), Run(" ", 1), Run("month", 1), Run("?", 1)>>

\* text1 + "\n" + text2 + ... of the texts of the cards
RECURSIVE CardLines(_)
CardLines(cards) ==
  IF cards = <<>> THEN <<>>
  ELSE Str("\n") \o cards[1].text \o CardLines(Tail(cards))

\* The instructions of WorkflowPlanner.plan, joined by "\n"; one symbol
\* stands for a stretch of words that no test of the fake client looks for.
PlannerInstructions(input, cards) ==
  <<Run("[You are a workflow planner ...]", 1), Run("\n", 1), Run("OUTPUT_JSON_PLAN", 1),
    Run("\n", 1), Run("Route: ", 1)>> \o RouteText(input.route)
  \o <<Run("\n", 1), Run("Tool registry:", 1), Run("\n- ", 1)>> \o ToolText("list_products")
  \o <<Run(": [description]\n- ", 1)>> \o ToolText("top_products")
  \o <<Run(": [description]\n- ", 1)>> \o ToolText("timeseries")
  \o <<Run(": [description]\n- ", 1)>> \o ToolText("benchmark")
  \o <<Run(": Return a ", 1), Run("benchmark", 1), Run(" (category average) ...\n- ", 1)>>
  \o ToolText("compute_changes")
  \o <<Run(": [description]\n", 1),
       Run(IF OrElse(input.session, <<>>) # <<>> THEN "Working memory: selectedProductIds=[...]"
           ELSE "Working memory: none", 1)>>
  \o (IF cards # <<>> THEN <<Run("\n", 2), Run("Relevant long-term memory:", 1)>>
                            \o CardLines(cards)
       ELSE <<>>)
  \o <<Run("\n", 2), Run("[Return ONLY JSON ...]", 1), Run("\n", 1),
       Run("- If query mentions \"", 1), Run("those", 1), Run(" ", 1), Run("products", 1),
       Run("\", use selectedProductIds.\n- Keep max 6 steps.\n- Prefer ", 1)>>
  \o ToolText("top_products") \o <<Run(" for top-N, ", 1), Run("timeseries", 1),
       Run(" for trends, ", 1), Run("benchmark", 1), Run(" for category baselines, ", 1)>>
  \o ToolText("compute_changes") \o <<Run(" for change rates.", 1)>>

\* (params.instructions ?? "") + "\n" + "user: " + content
FakeInput(instructions, content) ==
  instructions \o <<Run("\n", 1), Run("user", 1), Run(":", 1), Run(" ", 1)>> \o content

\* extractSelectedProductIds(input): the ids JSON.parse reads out of the
\* Working-memory line, which holds JSON.stringify of the ids of the session.
extractSelectedProductIds(session) ==
  IF OrElse(session, <<>>) # <<>> THEN session ELSE None

\* /top\s+10\s+products/i
TopTenProducts(lower) ==
  \E i \in DOMAIN lower :
    /\ lower[i].c = "top"
    /\ \E j \in (i + 2)..(Len(lower) - 3), k \in (i + 5)..Len(lower) :
         /\ \A m \in (i + 1)..(j - 1) : IsWs(lower[m].c)
         /\ lower[j] = Run("1", 1)
         /\ lower[j + 1] = Run("0", 1)
         /\ k >= j + 3
         /\ \A m \in (j + 2)..(k - 1) : IsWs(lower[m].c)
         /\ lower[k].c = "products"

\* /last month/i: in so many words, or in the "Last month: ..." line of a
\* time context
LastMonthIn(lower) ==
  \/ IncludesPhrase(lower, "last", "month")
  \/ \E i \in DOMAIN lower, d \in DateSyms : lower[i].c = "[Time context of " \o d \o "]"

\* JSON.stringify(plan) of the plan the fake client writes
FakePlanText(route, step) ==
  ObjText(JObj([route |-> JStr(RouteText(route)),
                timeRange |-> JObj([startDate |-> JStr(Str("2026-01-01")),
                                    endDate |-> JStr(Str("2026-01-31"))]),
                steps |-> JArr(<<JObj([tool |-> JStr(step.tool), args |-> step.args[1]])>>)]))

FakeRange == [startDate |-> Str("2026-01-01"), endDate |-> Str("2026-01-31")]

FakeTimeseries(productIds) ==
  TimeseriesStep(Str("sessions"), [i \in DOMAIN productIds |-> JStr(productIds[i])], FakeRange)

\* The same client deaf to the memory cards: baseline-confused picks the
\* wrong metric whatever the prompt holds.
FakeMetricIgnoringMemory(mode, metric, hasMemory) ==
  IF mode = "baseline-confused" THEN (IF metric = Str("sales") THEN Str("units") ELSE metric)
  ELSE metric

\* "this.mode === "baseline-confused" && !hasMemory ? (metric === "sales" ?
\* "units" : metric) : metric"
FakeMetric(mode, metric, hasMemory) ==
  IF mode = "baseline-confused" /\ ~hasMemory
    THEN (IF metric = Str("sales") THEN Str("units") ELSE metric)
  ELSE metric

\* What complete writes when the input holds OUTPUT_JSON_PLAN
FakePlan(mode, input, lower, selected) ==
  IF IncludesPhrase(lower, "those", "products")
       /\ (Includes(lower, "traffic") \/ Includes(lower, "sessions"))
    THEN FakePlanText("data_presenter",
                      FakeTimeseries(OrElse(selected, <<Str("P_demo_1"), Str("P_demo_2")>>)))
  ELSE FakePlanText(IF Includes(lower, "why") \/ Includes(lower, "benchmark")
                         \/ Includes(lower, "perform")
                      THEN "insight_generator" ELSE "data_presenter",
                    TopProductsStep(
                      FakeMetric(mode,
                                 IF TopTenProducts(lower) /\ Includes(lower, "sales")
                                      /\ LastMonthIn(lower) THEN Str("sales")
                                 ELSE IF Includes(lower, "traffic") \/ Includes(lower, "sessions")
                                   THEN Str("sessions")
                                 ELSE Str("sales"),
                                 IncludesPhrase(input, "MEMORY", "CARD")),
                      FakeRange, 10))

\* FakeLLMClient(mode).complete({instructions, messages}): the text; selected
\* is what extractSelectedProductIds finds in the input.
FakeComplete(mode, input, selected) ==
  IF \E i \in DOMAIN input : input[i].c = "OUTPUT_JSON_PLAN"
    THEN FakePlan(mode, input, ToLowerCase(input), selected)
  ELSE IF IncludesPhrase(input, "MEMORY", "CARD")
    THEN Str("Using memory, here is a better answer.")
  ELSE Str("Here is an answer.")

\* The input of the planner of the run in flight
RunPlannerInput ==
  [route |-> runQuery.decision[1].route[1], query |-> runQuery.params.query,
   timeContext |-> getTimeContext(runQuery.params.today), session |-> runQuery.session]

\* The completion of the fake client for the planner's prompt of the run
RunFakeCompletion ==
  FakeComplete(orch[1].fake,
               FakeInput(PlannerInstructions(RunPlannerInput, AgentCards),
                         runQuery.augmentedQuery),
               extractSelectedProductIds(runQuery.session))

\* agent.run: this.planner.plan(...) of a planner whose LLM is the fake
\* client; the client never rejects
PlanWithFake ==
  /\ runQuery.pc = "plan"
  /\ Planned(plan(Some(RunFakeCompletion), RunPlannerInput), Some(RunFakeCompletion))
  /\ UNCHANGED <<memory_items, memory_fts, tool_cache, runs, clock, ulids, lastCall, orch,
                 runScenario>>

\* new ScenarioRunner({llm: new FakeLLMClient(mode), ...}).runScenario(opts)
FakeScenarioCalls ==
  {[cfg |-> [llm |-> TRUE, ns |-> None, fake |-> mode],
    opts |-> [steps |-> <<QSalesTop10>>, today |-> "2026-02-04", userId |-> "demo",
              configs |-> <<"baseline", "read">>, repeat |-> Some(1)]]
     : mode \in {"baseline-confused", "always-correct"}}
  \cup {[cfg |-> [llm |-> TRUE, ns |-> None, fake |-> "baseline-confused"],
         opts |-> [steps |-> <<QSalesTop10, QThose>>, today |-> "2026-02-04",
                   userId |-> "demo", configs |-> <<"read", "baseline">>, repeat |-> None]],
        [cfg |-> [llm |-> TRUE, ns |-> None, fake |-> "baseline-confused"],
         opts |-> [steps |-> <<QTop2, QWeather>>, today |-> "2026-02-04",
                   userId |-> "demo", configs |-> <<"read">>, repeat |-> Some(1)]]}

FakeNext ==
  \/ \E call \in FakeScenarioCalls : RunScenario(call.cfg, call.opts)
  \/ OpenConfig
  \/ CallRunQuery
  \/ ManagerRoute
  \/ OodRecord
  \/ WorkerRetrieve
  \/ PlanWithFake
  \/ ExecutePlan
  \/ Respond
  \/ Evaluate
  \/ Record
  \/ CollectRun
  \/ RejectScenario
  \/ NextPass
  \/ Summarize
  \/ ReturnSummaries

SpecFake == StoreInit /\ [][FakeNext]_vars


(***************************************************************************)
(* memory/leverager.ts: scoreHit, and the ftsRank that searchMemory puts   *)
(* on a hit.  Ranks, recencies and logarithms are in thousandths, a score  *)
(* in hundred-thousandths, bm25 in thousandths, instants and ages in days. *)
(***************************************************************************)
\* The double Infinity, above every number of the model
Infinity == 1000 * 1000 * 1000

\* const ftsRank = 1 / (1 + Number(r.bm25)): the quotient of doubles, which
\* is Infinity when 1 + bm25 is 0 and negative when it is below 0
FtsRankOf(bm25) ==
  IF 1000 + bm25 = 0 THEN Infinity
  ELSE IF 1000 + bm25 > 0 THEN (1000 * 1000) \div (1000 + bm25)
  ELSE 0 - ((1000 * 1000) \div (0 - (1000 + bm25)))

\* TWO_WEEKS_MS
TwoWeeks == 14

\* Number.isFinite(lastUsedMs) ? Math.max(0, nowMs - lastUsedMs) : TWO_WEEKS_MS
\* with the absolute value in place of Math.max(0, .)
AgeMsAbsolute(lastUsedAt, nowMs) ==
  IF lastUsedAt = None THEN TwoWeeks
  ELSE IF nowMs - lastUsedAt[1] < 0 THEN lastUsedAt[1] - nowMs ELSE nowMs - lastUsedAt[1]

\* Number.isFinite(lastUsedMs) ? Math.max(0, nowMs - lastUsedMs) : TWO_WEEKS_MS;
\* Date.parse of a lastUsedAt that is no date is NaN (None)
AgeMs(lastUsedAt, nowMs) ==
  IF lastUsedAt = None THEN TwoWeeks ELSE Max(0, nowMs - lastUsedAt[1])

\* Math.exp(-ageMs / TWO_WEEKS_MS) at the ages of the model
Recency(ageMs) ==
  CASE ageMs = 0 -> 1000
    [] ageMs = 7 -> 606
    [] ageMs = 14 -> 367
    [] ageMs = 21 -> 223
    [] ageMs = 28 -> 135

\* Math.log1p(useCount) at the counts of the model
Log1p(useCount) ==
  CASE useCount = 0 -> 0
    [] useCount = 1 -> 693
    [] useCount = 2 -> 1098

\* 0.55 * ftsRank + 0.25 * recency + 0.15 * importance + 0.05 * use; the
\* importance of a hit is in hundredths
scoreHit(hit, nowMs) ==
  IF hit.ftsRank = Infinity THEN Infinity
  ELSE 55 * hit.ftsRank + 25 * Recency(AgeMs(hit.lastUsedAt, nowMs))
         + 15 * (hit.importance * 10) + 5 * Log1p(hit.useCount)

\* The values bm25(memory_fts) takes on a matching row: the engine returns
\* the score multiplied by -1, so that the better match is the lower number
Bm25Values == {0 - 4000, 0 - 1000, 0 - 500, 0 - 1}

\* The instants of the model, in days
ScoreNows == {14, 21}

\* The hits handed to scoreHit: lastUsedAt is an instant before, at or after
\* now, or no date at all
ScoreHits ==
  {[bm25 |-> b, ftsRank |-> FtsRankOf(b), lastUsedAt |-> l, importance |-> imp,
    useCount |-> u]
     : b \in Bm25Values, l \in {None} \cup {Some(d) : d \in {0, 7, 14, 21, 28}},
       imp \in {50, 100}, u \in 0..2}

\* One call of scoreHit inside the map of retrieve; before is the call that
\* preceded it
ScoreHit(hit, nowMs) ==
  /\ lastCall' = [op |-> "scoreHit", threw |-> FALSE, hit |-> hit, nowMs |-> nowMs,
                  score |-> scoreHit(hit, nowMs),
                  before |-> IF lastCall.op = "scoreHit"
                               THEN Some([hit |-> lastCall.hit, nowMs |-> lastCall.nowMs,
                                          score |-> lastCall.score])
                               ELSE None]
  /\ UNCHANGED <<orch, runQuery, memory_items, memory_fts, tool_cache, runs, clock, ulids, runScenario>>

ScoreNext == \E hit \in ScoreHits, nowMs \in ScoreNows : ScoreHit(hit, nowMs)

SpecScore == StoreInit /\ [][ScoreNext]_vars


(***************************************************************************)
(* scenarios/runner.ts: the rows and the aggregate of one config as a      *)
(* function of the results that runQuery returned and of their latencies.  *)
(***************************************************************************)
MaxRows == 3

\* The scores of a result: none, or correctness, completeness and relevance
\* at and just above 0.8
AggregateScores ==
  {None, Some(Scores(800, 1000, 1000, 933, <<>>)), Some(Scores(801, 801, 801, 801, <<>>))}

\* What the runner reads of a result, and the latency it measured
AggregateResults ==
  {[params |-> [query |-> QTop2], id |-> Ulid(1), toolCalls |-> None, scores |-> s,
    latencyMs |-> l] : s \in AggregateScores, l \in {0, 1, 2}}

AggregateInputs == UNION {[1..n -> AggregateResults] : n \in 0..MaxRows}

\* lines 85-125 for one config and one pass over results
Aggregate(config, results) ==
  /\ lastCall' =
       [op |-> "aggregate", threw |-> FALSE,
        rows |-> [i \in DOMAIN results |->
                    ScenarioRow(results[i], 0, i, Len(results), results[i].latencyMs)],
        summary |-> ScenarioSummary(config,
                      [i \in DOMAIN results |->
                         ScenarioRow(results[i], 0, i, Len(results), results[i].latencyMs)])]
  /\ UNCHANGED <<orch, runQuery, memory_items, memory_fts, tool_cache, runs, clock, ulids, runScenario>>

AggregateNext == \E results \in AggregateInputs : Aggregate("baseline", results)

SpecAggregate == StoreInit /\ [][AggregateNext]_vars


(***************************************************************************)
(* data/time.ts on dates given as texts: a date is a sequence of           *)
(* characters, a Date is its number of days since 1970-01-01 (every Date   *)
(* of time.ts is a UTC midnight), and a formatted date is a string.        *)
(***************************************************************************)
\* The day number of the civil date (y, m, d) of the proleptic Gregorian
\* calendar, and the civil date of a day number
DaysFromCivil(y, m, d) ==
  LET yy == IF m <= 2 THEN y - 1 ELSE y
      era == yy \div 400
      yoe == yy - era * 400
      doy == (153 * (IF m > 2 THEN m - 3 ELSE m + 9) + 2) \div 5 + d - 1
      doe == yoe * 365 + yoe \div 4 - yoe \div 100 + doy
  IN era * 146097 + doe - 719468

CivilFromDays(days) ==
  LET z == days + 719468
      era == z \div 146097
      doe == z - era * 146097
      yoe == (doe - doe \div 1460 + doe \div 36524 - doe \div 146096) \div 365
      doy == doe - (365 * yoe + yoe \div 4 - yoe \div 100)
      mp == (5 * doy + 2) \div 153
      m == IF mp < 10 THEN mp + 3 ELSE mp - 9
  IN [y |-> yoe + era * 400 + (IF m <= 2 THEN 1 ELSE 0), m |-> m,
      d |-> doy - (153 * mp + 2) \div 5 + 1]

\* Date.UTC(year, month, date) in days: a year of 0..99 stands for 1900 + year,
\* a month outside 0..11 carries into the year, and the date counts on from
\* the first of the month
DateUTC(year, month, date) ==
  LET yr == IF 0 <= year /\ year <= 99 THEN 1900 + year ELSE year
  IN DaysFromCivil(yr + month \div 12, (month % 12) + 1, 1) + date - 1

\* getUTCFullYear, getUTCMonth (from 0), getUTCDate, getUTCDay (0 is Sunday)
getUTCFullYear(date) == CivilFromDays(date).y
getUTCMonth(date) == CivilFromDays(date).m - 1
getUTCDate(date) == CivilFromDays(date).d
getUTCDay(date) == (date + 4) % 7

\* date.split("-"): the stretches of characters between the dashes
SplitDashes(chars) ==
  LET dashes == {i \in DOMAIN chars : chars[i] = "-"}
      nth(k) == CHOOSE i \in dashes : Cardinality({j \in dashes : j < i}) = k - 1
  IN [k \in 1..(Cardinality(dashes) + 1) |->
        SubSeq(chars, IF k = 1 THEN 1 ELSE nth(k - 1) + 1,
               IF k = Cardinality(dashes) + 1 THEN Len(chars) ELSE nth(k) - 1)]

\* Number(x) of a stretch of decimal digits
RECURSIVE NumberOf(_)
NumberOf(digits) ==
  IF digits = <<>> THEN 0
  ELSE 10 * NumberOf(SubSeq(digits, 1, Len(digits) - 1))
         + (CHOOSE v \in 0..9 : ToString(v) = digits[Len(digits)])

parseIsoDate(date) ==
  LET parts == SplitDashes(date)
  IN DateUTC(NumberOf(parts[1]),
             (IF Len(parts) >= 2 THEN NumberOf(parts[2]) ELSE 1) - 1,
             IF Len(parts) >= 3 THEN NumberOf(parts[3]) ELSE 1)

\* `${n}`.padStart(2, "0")
PadStart2(n) == IF Len(ToString(n)) < 2 THEN "0" \o ToString(n) ELSE ToString(n)

\* formatIsoDate(date): the year is not padded
formatIsoDate(date) ==
  ToString(getUTCFullYear(date)) \o "-" \o PadStart2(getUTCMonth(date) + 1) \o "-"
    \o PadStart2(getUTCDate(date))

startOfUtcDay(date) == DateUTC(getUTCFullYear(date), getUTCMonth(date), getUTCDate(date))

addUtcDays(date, days) == date + days

startOfUtcWeekMonday(date) ==
  startOfUtcDay(addUtcDays(date, IF getUTCDay(date) = 0 THEN 0 - 6 ELSE 1 - getUTCDay(date)))

endOfUtcWeekSunday(date) == startOfUtcDay(addUtcDays(startOfUtcWeekMonday(date), 6))

startOfUtcMonth(date) == DateUTC(getUTCFullYear(date), getUTCMonth(date), 1)

endOfUtcMonth(date) ==
  startOfUtcDay(addUtcDays(DateUTC(getUTCFullYear(date), getUTCMonth(date) + 1, 1), 0 - 1))

\* getTimeContext(today) of a date text; the field today is the day of the
\* text
TimeContext(today) ==
  LET todayDate == parseIsoDate(today)
      thisWeekStart == startOfUtcWeekMonday(todayDate)
      thisWeekEnd == endOfUtcWeekSunday(todayDate)
      thisMonthStart == startOfUtcMonth(todayDate)
      lastMonthEnd == addUtcDays(thisMonthStart, 0 - 1)
  IN [thisWeekStart |-> formatIsoDate(thisWeekStart),
      thisWeekEnd |-> formatIsoDate(thisWeekEnd),
      lastWeekStart |-> formatIsoDate(addUtcDays(thisWeekStart, 0 - 7)),
      lastWeekEnd |-> formatIsoDate(addUtcDays(thisWeekEnd, 0 - 7)),
      thisMonthStart |-> formatIsoDate(thisMonthStart),
      thisMonthEnd |-> formatIsoDate(endOfUtcMonth(todayDate)),
      lastMonthStart |-> formatIsoDate(startOfUtcMonth(lastMonthEnd)),
      lastMonthEnd |-> formatIsoDate(lastMonthEnd)]

\* The characters of the ISO text of a civil date: four digits, two and two
TwoDigits(n) == <<ToString(n \div 10), ToString(n % 10)>>
IsoChars(y, m, d) ==
  TwoDigits(y \div 100) \o TwoDigits(y % 100) \o <<"-">> \o TwoDigits(m) \o <<"-">>
    \o TwoDigits(d)

IsLeapYear(y) == y % 4 = 0 /\ (y % 100 # 0 \/ y % 400 = 0)
DaysInMonth(y, m) ==
  IF m = 2 THEN (IF IsLeapYear(y) THEN 29 ELSE 28)
  ELSE IF m \in {4, 6, 9, 11} THEN 30 ELSE 31

\* The days getTimeContext is called on: the first and the last quarter of a
\* leap year and of a common year, a week of 2025, and days of the first
\* millennium
TimeTodays ==
  {day \in [y : {2024, 2026}, m : {1, 2, 3, 12}, d : 1..31] :
     day.d <= DaysInMonth(day.y, day.m)}
  \cup {[y |-> 2025, m |-> 1, d |-> d] : d \in 13..19}
  \cup {[y |-> y, m |-> m, d |-> 15] : y \in {50, 999, 1000}, m \in {1, 6}}

GetTimeContext(day) ==
  /\ lastCall' = [op |-> "getTimeContext", threw |-> FALSE, day |-> day,
                  today |-> IsoChars(day.y, day.m, day.d),
                  ctx |-> TimeContext(IsoChars(day.y, day.m, day.d))]
  /\ UNCHANGED <<orch, runQuery, memory_items, memory_fts, tool_cache, runs, clock, ulids, runScenario>>

TimeNext == \E day \in TimeTodays : GetTimeContext(day)

SpecTime == StoreInit /\ [][TimeNext]_vars


(***************************************************************************)
(* searchMemory with the rank columns of its hits: bm25(memory_fts) is the *)
(* engine's value for the row, any of Bm25Values, and the rows come in     *)
(* ascending order of it.                                                  *)
(***************************************************************************)
\* The hit that the map of searchMemory makes of a row
RankedHit(row, bm25) ==
  [id |-> row.id, scope |-> row.scope, kind |-> row.kind, bm25 |-> bm25,
   ftsRank |-> FtsRankOf(bm25)]

RankedSearch(opts) ==
  /\ \E rows \in SearchResults(memory_items, memory_fts,
                               [opts EXCEPT !.nowIso = OrElse(opts.nowIso, clock)]) :
       \E bm \in [DOMAIN rows -> Bm25Values] :
         /\ \A i \in DOMAIN rows, j \in DOMAIN rows : i < j => bm[i] <= bm[j]
         /\ lastCall' = [op |-> "searchMemory", threw |-> FALSE, opts |-> opts,
                         ranked |-> [i \in DOMAIN rows |-> RankedHit(rows[i], bm[i])]]
  /\ UNCHANGED <<orch, runQuery, memory_items, memory_fts, tool_cache, runs, clock, ulids, runScenario>>

RankNext ==
  \/ \E input \in LeveragerInputs : UpsertMemoryItem(input)
  \/ \E opts \in SearchOpts : RankedSearch(opts)
  \/ Tick

SpecRank == StoreInit /\ [][RankNext]_vars


(***************************************************************************)
(* extractJsonObjectCandidates on texts given character by character.      *)
(***************************************************************************)
MaxScanLen == 6

\* The characters of the texts: the braces, the two quotes, the backslash
\* and a letter
ScanChars == {"{", "}", "\"", "'", "\\", "a"}

ScanTexts == UNION {[1..n -> ScanChars] : n \in 0..MaxScanLen}

\* The loop of extractJsonObjectCandidates from the character i on, without
\* the escape flag
RECURSIVE ScanLoopNoEscape(_, _, _, _, _, _, _)
ScanLoopNoEscape(text, i, depth, start, quote, escape, out) ==
  IF i > Len(text) THEN out
  ELSE IF quote # None
    THEN ScanLoopNoEscape(text, i + 1, depth, start,
                          IF text[i] = quote[1] THEN None ELSE quote, FALSE, out)
  ELSE IF text[i] = "\"" \/ text[i] = "'"
    THEN ScanLoopNoEscape(text, i + 1, depth, start, Some(text[i]), FALSE, out)
  ELSE IF text[i] = "{"
    THEN ScanLoopNoEscape(text, i + 1, depth + 1, IF depth = 0 THEN i ELSE start, quote,
                          FALSE, out)
  ELSE IF text[i] = "}"
    THEN IF (IF depth > 0 THEN depth - 1 ELSE depth) = 0 /\ start >= 1
           THEN ScanLoopNoEscape(text, i + 1, 0, 0, quote, FALSE,
                                 Append(out, SubSeq(text, start, i)))
           ELSE ScanLoopNoEscape(text, i + 1, IF depth > 0 THEN depth - 1 ELSE depth, start,
                                 quote, FALSE, out)
  ELSE ScanLoopNoEscape(text, i + 1, depth, start, quote, FALSE, out)

\* The loop of extractJsonObjectCandidates from the character i on; inString
\* is quote # None, and start is 0 for -1
RECURSIVE ScanLoop(_, _, _, _, _, _, _)
ScanLoop(text, i, depth, start, quote, escape, out) ==
  IF i > Len(text) THEN out
  ELSE IF quote # None
    THEN IF escape THEN ScanLoop(text, i + 1, depth, start, quote, FALSE, out)
         ELSE IF text[i] = "\\" THEN ScanLoop(text, i + 1, depth, start, quote, TRUE, out)
         ELSE ScanLoop(text, i + 1, depth, start,
                       IF text[i] = quote[1] THEN None ELSE quote, FALSE, out)
  ELSE IF text[i] = "\"" \/ text[i] = "'"
    THEN ScanLoop(text, i + 1, depth, start, Some(text[i]), escape, out)
  ELSE IF text[i] = "{"
    THEN ScanLoop(text, i + 1, depth + 1, IF depth = 0 THEN i ELSE start, quote, escape, out)
  ELSE IF text[i] = "}"
    THEN IF (IF depth > 0 THEN depth - 1 ELSE depth) = 0 /\ start >= 1
           THEN ScanLoop(text, i + 1, 0, 0, quote, escape,
                         Append(out, SubSeq(text, start, i)))
           ELSE ScanLoop(text, i + 1, IF depth > 0 THEN depth - 1 ELSE depth, start, quote,
                         escape, out)
  ELSE ScanLoop(text, i + 1, depth, start, quote, escape, out)

\* extractJsonObjectCandidates(text) of a text of characters
ExtractCandidates ==
  /\ lastCall.op = "text"
  /\ lastCall' = [op |-> "extractJsonObjectCandidates", threw |-> FALSE,
                  text |-> lastCall.text,
                  out |-> ScanLoop(lastCall.text, 1, 0, 0, None, FALSE, <<>>)]
  /\ UNCHANGED <<orch, runQuery, memory_items, memory_fts, tool_cache, runs, clock, ulids, runScenario>>

\* The LLM has answered with a text
ScanInit ==
  /\ memory_items = {}
  /\ memory_fts = {}
  /\ tool_cache = {}
  /\ runs = <<>>
  /\ clock = 0
  /\ ulids = 0
  /\ \E text \in ScanTexts : lastCall = [op |-> "text", threw |-> FALSE, text |-> text]
  /\ orch = None
  /\ runQuery = [pc |-> "idle", n |-> 0]
  /\ runScenario = [pc |-> "idle"]

ScanNext == ExtractCandidates

SpecScan == ScanInit /\ [][ScanNext]_vars

\* C1: the store never holds two memory items with the same (scope, kind,
\* dedupeKey), and an upsertMemoryItem call that returns leaves exactly one row
\* at its triple, which carries the id the triple's row had before the call.
C1_OneRowPerTriple ==
  /\ [](\A r1 \in memory_items, r2 \in memory_items :
          (r1.scope = r2.scope /\ r1.kind = r2.kind /\ r1.dedupe_key = r2.dedupe_key)
            => r1 = r2)
  /\ [][(lastCall'.op = "upsertMemoryItem" /\ ~lastCall'.threw) =>
          LET before == {r \in memory_items : r.scope = lastCall'.scope
                           /\ r.kind = lastCall'.kind
                           /\ r.dedupe_key = lastCall'.dedupeKey}
              after == {r \in memory_items' : r.scope = lastCall'.scope
                          /\ r.kind = lastCall'.kind
                          /\ r.dedupe_key = lastCall'.dedupeKey}
          IN /\ Cardinality(after) = 1
             /\ {r.id : r \in after} = {lastCall'.id}
             /\ before # {} => {r.id : r \in before} = {r.id : r \in after}]_vars

\* An upsert of TxtLongY (2002 characters once redacted, differing from TxtLongZ
\* only in case and in the character behind the cap) has hit the row that an
\* upsert of TxtLongZ created, and the store holds a second row as well.
C1_Witness ==
  /\ lastCall.op = "upsertMemoryItem"
  /\ ~lastCall.threw
  /\ lastCall.text = TxtLongY
  /\ lastCall.prevText = Some(redactPII(TxtLongZ))
  /\ Cardinality(memory_items) = 2
  /\ \E r \in memory_items : r.id = lastCall.id /\ r.text = redactPII(TxtLongY)

\* C9: an upsertMemoryItem that hits an existing row keeps its id and leaves a
\* useCount that is not lower than the one stored before the call.
C9_UseCountNotLowered ==
  [][(lastCall'.op = "upsertMemoryItem" /\ ~lastCall'.threw) =>
       \A r \in memory_items :
         (r.scope = lastCall'.scope /\ r.kind = lastCall'.kind
            /\ r.dedupe_key = lastCall'.dedupeKey)
           => \E r2 \in memory_items' : r2.id = r.id /\ r2.use_count >= r.use_count]_vars

\* C2: when searchMemory has returned for the time nowIso, none of its hits is
\* an item of the store whose expiresAt is set and is at or before nowIso.
C2_NoExpiredHit ==
  lastCall.op = "searchMemory" =>
    \A i \in DOMAIN lastCall.hits :
      \A r \in memory_items :
        r.id = lastCall.hits[i] => ~(r.expires_at # None /\ r.expires_at[1] <= lastCall.nowIso)

\* A search has returned one hit while the store still holds a second item of
\* the searched scope that matches the query and expired exactly at nowIso.
C2_Witness ==
  /\ lastCall.op = "searchMemory"
  /\ Len(lastCall.hits) = 1
  /\ lastCall.opts.limit = None
  /\ \E r \in memory_items :
       /\ r.id # lastCall.hits[1]
       /\ r.scope = "global"
       /\ r.expires_at = Some(lastCall.nowIso)
       /\ \E f \in memory_fts : f.id = r.id /\ FtsMatch(f, lastCall.opts.query)

\* C10: every plan that WorkflowPlanner.plan returns has between 1 and 6
\* steps, each naming a registered tool with args its schema accepts.
C10_PlanWellFormed ==
  (lastCall.op = "plan" /\ lastCall.result.kind = "ok") =>
    LET steps == lastCall.result.plan.steps
    IN /\ Len(steps) >= 1
       /\ Len(steps) <= 6
       /\ \A i \in DOMAIN steps :
            /\ RegistryLookup(steps[i].tool).kind = "tool"
            /\ ArgsSchema(RegistryLookup(steps[i].tool).name, steps[i].args) # None

(***************************************************************************)
(* runQuery: what one run does to the store                                *)
(***************************************************************************)
\* The columns of a memory row that markMemoryUsed does not write.
ItemFrame(r) ==
  [id |-> r.id, scope |-> r.scope, kind |-> r.kind, text |-> r.text, meta |-> r.meta,
   created_at |-> r.created_at, importance |-> r.importance, quality |-> r.quality,
   expires_at |-> r.expires_at, dedupe_key |-> r.dedupe_key]

Frames(items) == {ItemFrame(r) : r \in items}

\* A step of runQuery, and the step on which runQuery returns.
RunStep == runQuery' # runQuery
Returns == runQuery.pc # "done" /\ runQuery'.pc = "done"

\* C3: after every step of a runQuery under memoryMode baseline or read the
\* store holds the memory items it held before the run, each with the same
\* text, meta, importance, quality and expiresAt (no insert, upsert, delete or
\* maintenance); only useCount and lastUsedAt may differ.
C3_NoWriteUnderBaselineOrRead ==
  [][(RunStep /\ runQuery'.params.mode \in {"baseline", "read"}) =>
       /\ Frames(memory_items') = Frames(runQuery'.before.items)
       /\ Cardinality(memory_items') = Cardinality(runQuery'.before.items)
       /\ memory_fts' = memory_fts]_vars

\* A run under read has returned with scores that would have produced memory
\* writes, markMemoryUsed has raised a useCount, and the store still holds an
\* item that expired before the run ended.
C3_Witness ==
  /\ runQuery.pc = "done"
  /\ runQuery.params.mode = "read"
  /\ runQuery.scores # None
  /\ proposeMemoryWrites(EvaluatedRun(runQuery)) # <<>>
  /\ ExpiredRows(memory_items, clock) # {}
  /\ \E r \in memory_items, b \in runQuery.before.items :
       r.id = b.id /\ r.use_count > b.use_count

\* C4: after every step of a runQuery under memoryMode baseline memoryInjected
\* is empty at the three stages, the card list handed to the manager, the
\* planner and the generator is empty, and every item has the useCount and
\* lastUsedAt it had before the run.
C4_NoRetrievalUnderBaseline ==
  [][(RunStep /\ runQuery'.params.mode = "baseline") =>
       /\ \A stage \in DOMAIN runQuery'.memoryInjected :
            runQuery'.memoryInjected[stage] = <<>>
       /\ \A agent \in DOMAIN runQuery'.passed :
            runQuery'.passed[agent] \in {None, Some(<<>>)}
       /\ \A b \in runQuery'.before.items :
            \E r \in memory_items' : /\ r.id = b.id
                                     /\ r.use_count = b.use_count
                                     /\ r.last_used_at = b.last_used_at]_vars

\* A baseline run of an insight query has returned, all three agents have been
\* handed their (empty) card lists, and the retrieval of the planning stage
\* would have returned a card from the store.
C4_Witness ==
  /\ runQuery.pc = "done"
  /\ runQuery.params.mode = "baseline"
  /\ runQuery.passed = [manager |-> Some(<<>>), planner |-> Some(<<>>),
                        generator |-> Some(<<>>)]
  /\ \E out \in Retrieve(memory_items, memory_fts, "workflow_plan", runQuery.params.query,
                         <<"global", "user:" \o runQuery.params.userId>>, clock) :
       out.cards # <<>>

\* The indices 1..n in order: the steps a run executes when none is skipped.
Indices(n) == [i \in 1..n |-> i]

\* C5: after every step of a runQuery under memoryMode baseline, read or
\* readwrite the tool_cache table is what it was before the run, and once the
\* plan has been executed every executed step has invoked its tool and is
\* recorded with cached=false.
C5_NoCacheUnlessReadwriteCache ==
  [][(RunStep /\ runQuery'.params.mode # "readwrite_cache") =>
       /\ tool_cache' = runQuery'.before.cache
       /\ runQuery'.toolCalls # None =>
            /\ Len(runQuery'.toolCalls[1])
                 = Min(Len(runQuery'.plan[1].steps), ExecutedStepsCap)
            /\ \A i \in DOMAIN runQuery'.toolCalls[1] : ~runQuery'.toolCalls[1][i].cached
            /\ runQuery'.invoked = Indices(Len(runQuery'.toolCalls[1]))]_vars

\* A run under read or readwrite has returned with a tool call whose signature
\* the tool cache holds an entry for, left there by an earlier run.
C5_Witness ==
  /\ runQuery.pc = "done"
  /\ runQuery.params.mode \in {"read", "readwrite"}
  /\ runQuery.toolCalls # None
  /\ \E i \in DOMAIN runQuery.toolCalls[1] :
       /\ ~runQuery.toolCalls[1][i].cached
       /\ \E row \in tool_cache : row.signature = runQuery.toolCalls[1][i].signature

\* The signatures of the tool calls of a run row.
SignaturesOf(toolCalls) ==
  IF toolCalls = None THEN {} ELSE {toolCalls[1][i].signature : i \in DOMAIN toolCalls[1]}

\* The result the cache row of a signature holds, as getToolCache parses it.
StoredResults(cache, signature) ==
  {safeJsonParse(row.result_json) : row \in {r \in cache : r.signature = signature}}

C7_OutOfScope ==
  [][(Returns /\ runQuery'.decision[1].ood) =>
       /\ runQuery'.responseText
            = Some(Str("Out of scope: I can help with seller analytics (sales, traffic, benchmarks)."))
       /\ runQuery'.plan = None
       /\ runQuery'.toolCalls = None
       /\ runQuery'.invoked = <<>>
       /\ runQuery'.scores = None
       /\ runQuery'.passed.planner = None
       /\ runQuery'.passed.generator = None
       /\ Frames(memory_items') = Frames(runQuery'.before.items)
       /\ tool_cache' = runQuery'.before.cache
       /\ runQuery'.session = runQuery'.params.session
       /\ Len(runs') = Len(runQuery'.before.runs) + 1
       /\ SubSeq(runs', 1, Len(runs') - 1) = runQuery'.before.runs
       /\ runs'[Len(runs')].id = runQuery'.id
       /\ runs'[Len(runs')].ood
       /\ runs'[Len(runs')].plan_json = None
       /\ runs'[Len(runs')].tool_calls_json = None
       /\ \A n \in 1..(Len(runs') - 1) : runs'[n].id # runQuery'.id]_vars

\* An out-of-scope query given a session has returned under readwrite_cache
\* while the tool cache holds entries of an earlier run.
C7_Witness ==
  /\ runQuery.pc = "done"
  /\ runQuery.decision[1].ood
  /\ runQuery.params.mode = "readwrite_cache"
  /\ runQuery.params.session # None
  /\ tool_cache # {}
  /\ Len(runs) = 2
  /\ runs[2].ood /\ ~runs[1].ood

\* The stages of a returned run, in the order of runQuery.
StagesOf(r) ==
  IF r.decision[1].ood THEN <<"augment", "manager_route", "ood", "record">>
  ELSE <<"augment", "manager_route", "worker_retrieve">>
         \o (IF r.decision[1].route = Some("insight_generator")
               THEN <<"generator_retrieve">> ELSE <<>>)
         \o <<"plan", "execute", "respond", "evaluate">>
         \o (IF r.params.mode \in {"readwrite", "readwrite_cache"} THEN <<"write">> ELSE <<>>)
         \o <<"record">>

\* C8: a run that returns has gone through its stages in the order augment,
\* manager routing, then the out-of-scope answer or retrieval, plan, execute,
\* respond, evaluate and (when enabled) the memory write, then record; the
\* runs only ever grow by one row at the end, which happens exactly on the
\* step on which a run returns, that step writing nothing else to the store.
C8_StagesInOrderRunsAppendOnly ==
  [][/\ Len(runs') >= Len(runs)
     /\ SubSeq(runs', 1, Len(runs)) = runs
     /\ runs' # runs <=> Returns
     /\ Returns =>
          /\ runQuery'.trace = StagesOf(runQuery')
          /\ runs' = Append(runs, runs'[Len(runs')])
          /\ runs'[Len(runs')].id = runQuery'.id
          /\ \A n \in DOMAIN runs : runs[n].id # runQuery'.id
          /\ memory_items' = memory_items
          /\ memory_fts' = memory_fts
          /\ tool_cache' = tool_cache]_vars

\* A second run has returned after its memory write, its row standing behind
\* the row of an out-of-scope run.
C8_Witness ==
  /\ runQuery.pc = "done"
  /\ Len(runs) = 2
  /\ runs[1].ood
  /\ ~runs[2].ood
  /\ runs[2].id = runQuery.id
  /\ runQuery.trace = <<"augment", "manager_route", "worker_retrieve", "generator_retrieve",
                        "plan", "execute", "respond", "evaluate", "write", "record">>

(***************************************************************************)
(* WorkflowExecutor.execute within a run                                   *)
(***************************************************************************)
\* The signature the executor computes for a step of a plan.
StepSignature(step, namespace) ==
  toolSignature(RegistryLookup(step.tool).name, step.args[1], namespace)

\* i1 < i2 < ... : the indices of a list of steps, in array order.
Ascending(indices) ==
  \A j \in DOMAIN indices : \A k \in DOMAIN indices : j < k => indices[j] < indices[k]

\* C11: the step on which the executor runs a plan processes the first
\* min(6, number of steps) steps in array order and, when it returns, leaves
\* one ToolCallRecord per processed step in that order; no step beyond the
\* sixth has its tool called, is looked up in the cache or is written to it.
C11_FirstSixStepsInOrder ==
  [][(runQuery.pc = "execute" /\ RunStep) =>
       LET steps == runQuery.plan[1].steps
           n == Min(6, Len(steps))
       IN /\ \A k \in DOMAIN runQuery'.invoked : runQuery'.invoked[k] \in 1..n
          /\ \A k \in DOMAIN runQuery'.lookups : runQuery'.lookups[k] \in 1..n
          /\ Ascending(runQuery'.invoked)
          /\ Ascending(runQuery'.lookups)
          /\ \A i \in (n + 1)..Len(steps) :
               (\A j \in 1..n : StepSignature(steps[j], orch[1].ns)
                                  # StepSignature(steps[i], orch[1].ns))
                 => {row \in tool_cache' : row.signature = StepSignature(steps[i], orch[1].ns)}
                      = {row \in tool_cache : row.signature = StepSignature(steps[i], orch[1].ns)}
          /\ runQuery'.pc = "respond" =>
               /\ Len(runQuery'.toolCalls[1]) = n
               /\ \A i \in 1..n :
                    /\ runQuery'.toolCalls[1][i].tool = RegistryLookup(steps[i].tool).name
                    /\ runQuery'.toolCalls[1][i].args = steps[i].args[1]
                    /\ runQuery'.toolCalls[1][i].signature = StepSignature(steps[i], orch[1].ns)
               /\ \A i \in 1..n :
                    \/ \E k \in DOMAIN runQuery'.invoked : runQuery'.invoked[k] = i
                    \/ runQuery'.toolCalls[1][i].cached]_vars

\* A run under readwrite_cache has returned after executing a plan of more
\* than six steps: six records, six lookups, and the cache holds no entry for
\* the seventh step's call.
C11_Witness ==
  /\ runQuery.pc = "done"
  /\ runQuery.params.mode = "readwrite_cache"
  /\ runQuery.plan # None
  /\ Len(runQuery.plan[1].steps) > 6
  /\ Len(runQuery.toolCalls[1]) = 6
  /\ runQuery.lookups = Indices(6)
  /\ ~\E row \in tool_cache :
        row.signature = StepSignature(runQuery.plan[1].steps[7], orch[1].ns)

(***************************************************************************)
(* The planner within a run                                                *)
(***************************************************************************)
\* The input runQuery's agent hands the planner.
PlannerInputOf(r) ==
  [route |-> r.decision[1].route[1], query |-> r.params.query,
   timeContext |-> getTimeContext(r.params.today), session |-> r.session]

\* C12: whatever text the planner's LLM has returned, the planning step does
\* not throw: it leaves a plan whose steps name registered tools with valid
\* arguments and usedFallback=false, or the heuristic plan with
\* usedFallback=true and rawText equal to the LLM's text; and a run that
\* returns after a fallback carries usedFallback=true with that rawText.
C12_PlannerNeverFatal ==
  [][/\ (runQuery.pc = "plan" /\ RunStep /\ runQuery'.thrownBy # Some("llm")
           /\ orch[1].llm) =>
          /\ runQuery'.pc = "execute"
          /\ runQuery'.completion # None
          /\ IF runQuery'.usedFallback
               THEN /\ runQuery'.plan = Some(heuristicPlan(PlannerInputOf(runQuery)))
                    /\ runQuery'.rawText = runQuery'.completion
               ELSE \A i \in DOMAIN runQuery'.plan[1].steps :
                      /\ RegistryLookup(runQuery'.plan[1].steps[i].tool).kind = "tool"
                      /\ ArgsSchema(RegistryLookup(runQuery'.plan[1].steps[i].tool).name,
                                    runQuery'.plan[1].steps[i].args) # None
     /\ (Returns /\ runQuery'.usedFallback /\ runQuery'.completion # None) =>
          runQuery'.rawText = runQuery'.completion]_vars

(***************************************************************************)
(* parsePlan over several candidates                                       *)
(***************************************************************************)
\* The four validation stages applied to one candidate on its own.
CandidateOutcome(candidate) ==
  ParseValidated(<<candidate>>, 1, WorkflowPlanSchema(safeJsonParse(stripTrailingCommas(candidate))))

\* C13: a plan call whose LLM text holds balanced {...} candidates returns the
\* plan of the first candidate, in text order, that passes the JSON parse, the
\* plan shape, the tool lookup and the argument validation of every step, and
\* returns the heuristic fallback only when no candidate passes them all.
C13_FirstValidCandidate ==
  (lastCall.op = "plan" /\ lastCall.llm # None /\ ~lastCall.threw) =>
    LET candidates == extractJsonObjectCandidates(lastCall.llm[1])
        valid == {i \in DOMAIN candidates : CandidateOutcome(candidates[i]).kind = "ok"}
    IN IF valid = {} THEN lastCall.result.usedFallback
       ELSE /\ ~lastCall.result.usedFallback
            /\ lastCall.result.plan
                 = CandidateOutcome(candidates[CHOOSE i \in valid : \A j \in valid : i <= j]).plan

(***************************************************************************)
(* Failures inside a run                                                   *)
(***************************************************************************)
\* C14: the write stage of a run (applyMemoryWrites, then maintenance) never
\* ends the run: whether or not a write or the sweep fails, the run goes on
\* to insert its run record and to return the answer it had produced.
C14_WritesBestEffort ==
  [][(runQuery.pc = "write" /\ RunStep) =>
       /\ runQuery'.pc = "record"
       /\ runQuery'.responseText = runQuery.responseText]_vars

\* C15: when the runQuery of a scenario step has been aborted by a failure of
\* LLMClient.complete, runScenario goes on to the next step (and so to the
\* next config and to its summaries): it keeps the rows and summaries it has
\* and does not reject.
C15_LlmFailureAbortsOneRun ==
  [][(/\ runScenario.pc = "running"
      /\ runQuery.pc = "failed"
      /\ runQuery.thrownBy = Some("llm")
      /\ runScenario' # runScenario) =>
       /\ runScenario'.pc = "step"
       /\ runScenario'.i = runScenario.i + 1
       /\ runScenario'.summaries = runScenario.summaries]_vars

\* Names a plan step can carry that are no tool of the registry.
UnregisteredNames == {Str("constructor"), Str("weather")}

\* The executor's step of a run, as execute(plan) with the dataset failing
\* at step faultAt leaves it: a thrown execute ends the run on the spot.
ExecuteStepOf(out) ==
  /\ tool_cache' = out.cache
  /\ runQuery'.invoked = out.invoked
  /\ IF out.threw
       THEN /\ runQuery'.pc = "failed"
            /\ runQuery'.toolCalls = None
            /\ runs' = runs
            /\ memory_items' = memory_items
            /\ memory_fts' = memory_fts
       ELSE /\ runQuery'.pc = "respond"
            /\ runQuery'.toolCalls = Some(out.toolCalls)

\* execute(plan) of the run in flight when the dataset fails at step faultAt
ExecuteOfRun(faultAt) ==
  execute(tool_cache, runQuery.plan[1], CacheEnabled(runQuery.params.mode), orch[1].ns,
          clock, faultAt)

\* C16: execute throws when the tool it calls at a step throws and when a
\* step names a tool that is not registered; when execute throws, runQuery
\* rejects there: the run takes no further step, so it returns no RunResult,
\* no row of runs carries its id, and the memory items are as the executor
\* found them (no write, no maintenance).
C16_ToolFailureRejectsRun ==
  /\ [](runQuery.pc = "execute" =>
          \A faultAt \in 1..MaxFaultStep :
            (\E k \in DOMAIN ExecuteOfRun(faultAt).invoked :
               ExecuteOfRun(faultAt).invoked[k] = faultAt) => ExecuteOfRun(faultAt).threw)
  /\ [](\A name \in UnregisteredNames, enableCache \in BOOLEAN :
          execute(tool_cache, [steps |-> <<[tool |-> name, args |-> Some(JObj(EmptyObj))]>>],
                  enableCache, None, clock, 0).threw)
  /\ [][(runQuery.pc = "execute" /\ RunStep) =>
          \E faultAt \in ToolFaults : ExecuteStepOf(ExecuteOfRun(faultAt))]_vars
  /\ [][(runQuery.pc = "failed" /\ RunStep) => runQuery'.pc = "manager"]_vars
  /\ [](runQuery.pc = "failed" => \A k \in DOMAIN runs : runs[k].id # runQuery.id)

\* A run whose second tool call threw, after the first had been made.
C16_Witness ==
  /\ runQuery.pc = "failed"
  /\ runQuery.thrownBy = Some("tool")
  /\ Len(runQuery.invoked) = 2

\* The table after is the table before with the use of the items of ids
\* counted once more at instant now, and with nothing else changed.
UsedOnce(before, after, ids, now) ==
  /\ Cardinality(after) = Cardinality(before)
  /\ \A b \in before :
       \E a \in after :
         a = IF b.id \in ids
               THEN [b EXCEPT !.use_count = b.use_count + 1, !.last_used_at = now]
               ELSE b

\* The cards a retrieval step of the run has handed to its stage.
CardsOfStep ==
  CASE runQuery.pc = "manager" -> runQuery'.memoryInjected.manager_route
    [] runQuery.pc = "worker" -> runQuery'.memoryInjected.workflow_plan
    [] runQuery.pc = "generator" -> runQuery'.memoryInjected.insight_generate

\* C17: a retrieval of a run counts one more use, at the instant of the
\* retrieval, for each item it returns as a card and for no other item, and
\* has done so when the cards reach the stage; the stages that consume the
\* cards (decide, plan, execute, respond), succeeding or failing, leave the
\* counters as the retrieval set them.
C17_RetrievalMarksCardsUsed ==
  /\ [][(RunStep /\ runQuery.pc \in {"manager", "worker", "generator"}
                /\ runQuery'.thrownBy # Some("search")) =>
          UsedOnce(memory_items, memory_items',
                   {CardsOfStep[i].id : i \in DOMAIN CardsOfStep}, clock)]_vars
  /\ [][(RunStep /\ runQuery.pc \in {"plan", "execute", "respond", "evaluate"}) =>
          memory_items' = memory_items]_vars

\* A run whose planner or executor failed after a retrieval had counted a
\* use of one item and none of another.
C17_Witness ==
  /\ runQuery.pc = "failed"
  /\ runQuery.thrownBy \in {Some("llm"), Some("planner"), Some("tool")}
  /\ \E r \in memory_items, b \in runQuery.before.items :
       r.id = b.id /\ r.use_count > b.use_count
  /\ \E r \in memory_items : r \in runQuery.before.items

\* C18: a retrieve of a leverager built with k and maxCardChars returns at
\* most k cards, and the text of each card, a cut one included, is at most
\* maxCardChars characters long.
C18_CardsWithinBudget ==
  (lastCall.op = "retrieve" /\ ~lastCall.threw) =>
    /\ Len(lastCall.cards) <= lastCall.k
    /\ \A i \in DOMAIN lastCall.cards : TextLen(lastCall.cards[i].text) <= lastCall.maxCardChars

\* What does hold of a retrieve: at most k cards, each at most maxCardChars
\* + 2 characters long, and a cut card exactly that long.
CardsWithinBudgetPlusTwo ==
  (lastCall.op = "retrieve" /\ ~lastCall.threw) =>
    /\ Len(lastCall.cards) <= lastCall.k
    /\ \A i \in DOMAIN lastCall.cards :
         TextLen(lastCall.cards[i].text) <= lastCall.maxCardChars + 2

\* A leverager built without options has returned a card of 602 characters.
DefaultCardOverBudget ==
  /\ lastCall.op = "retrieve"
  /\ lastCall.maxCardChars = MaxCardChars
  /\ \E i \in DOMAIN lastCall.cards : TextLen(lastCall.cards[i].text) = MaxCardChars + 2

\* An item is expired at nowIso: its expiresAt is set and is at or before nowIso.
IsExpiredAt(r, nowIso) == r.expires_at # None /\ r.expires_at[1] <= nowIso

\* C19: when maintenance(nowIso) has returned, memory_items holds no item
\* expired at nowIso and memory_fts no row of one, the count it returned is
\* the number of items it deleted, and every item that was not expired at
\* nowIso is in memory_items, and its rows in memory_fts, as before the call.
C19_MaintenanceDeletesExpired ==
  [][(lastCall'.op = "maintenance" /\ clock' = clock) =>
       /\ \A r \in memory_items' : ~IsExpiredAt(r, lastCall'.nowIso)
       /\ \A f \in memory_fts' :
            \A r \in memory_items : r.id = f.id => ~IsExpiredAt(r, lastCall'.nowIso)
       /\ lastCall'.expired = Cardinality(memory_items \ memory_items')
       /\ memory_items' \subseteq memory_items
       /\ \A r \in memory_items :
            ~IsExpiredAt(r, lastCall'.nowIso) =>
              /\ r \in memory_items'
              /\ {f \in memory_fts' : f.id = r.id} = {f \in memory_fts : f.id = r.id}]_vars

\* A maintenance has deleted one item and left another, which expires later.
C19_Witness ==
  /\ lastCall.op = "maintenance"
  /\ lastCall.expired = 1
  /\ \E r \in memory_items : r.expires_at # None /\ r.expires_at[1] > lastCall.nowIso
  /\ memory_fts # {}

\* C20: when a run under memoryMode readwrite or readwrite_cache has returned
\* its result, whatever its route, the store holds no memory item that has
\* expired by the instant of the return.
C20_NoExpiredAfterWriteEnabledRun ==
  [][(/\ runQuery.pc # "done"
      /\ runQuery'.pc = "done"
      /\ WritesEnabled(runQuery'.params.mode)) =>
       \A r \in memory_items' : ~IsExpiredAt(r, clock')]_vars

\* The part of C20 that holds: a write-enabled run that was routed to a worker
\* and has returned leaves no expired item.
RoutedRunLeavesNoExpired ==
  [][(/\ runQuery.pc # "done"
      /\ runQuery'.pc = "done"
      /\ WritesEnabled(runQuery'.params.mode)
      /\ ~runQuery'.decision[1].ood /\ runQuery'.decision[1].route # None) =>
       \A r \in memory_items' : ~IsExpiredAt(r, clock')]_vars

\* An out-of-scope run under readwrite_cache has returned, and the store still
\* holds the host's item that expired before the run began.
OodRunLeftExpired ==
  /\ runQuery.pc = "done"
  /\ WritesEnabled(runQuery.params.mode)
  /\ runQuery.decision[1].ood
  /\ \E r \in memory_items : IsExpiredAt(r, runQuery.createdAt)

\* The kind and the importance of each write of a list, in order
KindsOf(writes) == [i \in DOMAIN writes |-> <<writes[i].kind, writes[i].importance>>]

\* The kinds and importances proposeMemoryWrites is said to give for a
\* quality in thousandths and a run that made, or did not make, a
\* top_products call
SaidWrites(quality, madeTopCall) ==
  IF quality >= 800
    THEN <<<<"query_pattern", Num(35)>>>>
         \o (IF madeTopCall THEN <<<<"tool_template", Num(45)>>>> ELSE <<>>)
  ELSE IF quality <= 500 THEN <<<<"failure_case", Num(40)>>>>
  ELSE <<<<"query_pattern", Num(20)>>>>

\* C21: proposeMemoryWrites returns no write for a run without scores;
\* otherwise every write is in scope user:<userId>, and the writes are a
\* query_pattern of importance 0.35, followed by a tool_template of importance
\* 0.45 exactly when the run made a top_products call, when quality >= 0.8; one
\* failure_case of importance 0.4 when quality <= 0.5; one query_pattern of
\* importance 0.2 for a quality in between.
C21_WritesFollowQuality ==
  lastCall.op = "proposeMemoryWrites" =>
    IF lastCall.run.scores = None THEN lastCall.writes = <<>>
    ELSE /\ \A i \in DOMAIN lastCall.writes :
              lastCall.writes[i].scope = "user:" \o lastCall.run.userId
         /\ KindsOf(lastCall.writes) =
              SaidWrites(lastCall.run.scores[1].quality,
                         \E i \in DOMAIN lastCall.run.toolCalls :
                           lastCall.run.toolCalls[i].tool = "top_products")

\* proposeMemoryWrites has returned a query_pattern and a tool_template for a
\* run of user u2 that the evaluator scored.
C21_Witness ==
  /\ lastCall.op = "proposeMemoryWrites"
  /\ lastCall.run.userId = "u2"
  /\ lastCall.run.scores # None
  /\ lastCall.run.scores[1].notes = <<>>
  /\ Len(lastCall.writes) = 2
  /\ lastCall.writes[2].kind = "tool_template"

\* proposeMemoryWrites has returned a failure_case for a quality of 0.5.
FailureCaseAtThreshold ==
  /\ lastCall.op = "proposeMemoryWrites"
  /\ lastCall.run.scores # None
  /\ lastCall.run.scores[1].quality = 500
  /\ KindsOf(lastCall.writes) = <<<<"failure_case", Num(40)>>>>

\* The quality of scores is the mean of the three others, to the thousandth
\* the scores are kept to.
IsMean(scores) ==
  Abs(3 * scores.quality - (scores.correctness + scores.completeness + scores.relevance)) <= 3

\* C22: the quality of every EvalScores that evaluate returns is the mean
\* (correctness + completeness + relevance) / 3, on the early returns as well.
C22_QualityIsMean ==
  (lastCall.op = "evaluate" /\ lastCall.scores # None) => IsMean(lastCall.scores[1])

\* The part of C22 that holds: on every path but the empty-result return of
\* the top_products scorer the quality is the mean.
QualityIsMeanButEmptyResult ==
  (/\ lastCall.op = "evaluate" /\ lastCall.scores # None
   /\ lastCall.scores[1].notes # <<"Empty tool result.">>) => IsMean(lastCall.scores[1])

\* The top_products scorer has returned for a call without rows: the scores
\* are 0, 0 and 0.2, and the quality is 0.07.
EmptyResultQuality ==
  /\ lastCall.op = "evaluate"
  /\ lastCall.scores = Some(Scores(0, 0, 200, 70, <<"Empty tool result.">>))
  /\ FindCall(lastCall.toolCalls, "top_products") # None

\* The why_drop_wow scorer has returned a quality above 0.8.
WhyDropScoredGood ==
  /\ lastCall.op = "evaluate"
  /\ lastCall.scores # None
  /\ lastCall.scores[1].quality > 800
  /\ lastCall.query = QWhy

\* The productIds of the rows of the first top_products record of a list of
\* calls, in rank order; the empty list without such a record
TopIdsOf(toolCalls) ==
  IF FindCall(toolCalls, "top_products") = None THEN <<>>
  ELSE [i \in DOMAIN OrElse(ArrayOf(FindCall(toolCalls, "top_products")[1].result, "rows"), <<>>)
          |-> ArrayOf(FindCall(toolCalls, "top_products")[1].result, "rows")[1][i].o.productId.s]

\* The first min(n, 20) of a list of n ids
FirstTwenty(ids) == SubSeq(ids, 1, Min(Len(ids), 20))

\* The query mentions "those products"
MentionsThose(query) == IncludesPhrase(ToLowerCase(query), "those", "products")

\* The first half of C23: after a data_presenter run whose top_products call
\* returned n >= 1 rows, selectedProductIds is the list of the first
\* min(n, 20) productIds in rank order.
SelectedAreFirstTwenty ==
  (lastCall.op = "run" /\ TopIdsOf(lastCall.toolCalls) # <<>>) =>
    lastCall.sessionState = Some(FirstTwenty(TopIdsOf(lastCall.toolCalls)))

\* The plan is one timeseries step over the ids
IsTimeseriesOver(workflow, ids) ==
  /\ Len(workflow.steps) = 1
  /\ workflow.steps[1].tool = ToolText("timeseries")
  /\ Get(workflow.steps[1].args[1], "productIds") = Some(JArr([i \in DOMAIN ids |-> JStr(ids[i])]))

\* C23: after a data_presenter run whose top_products call returned n >= 1
\* rows the session holds the first min(n, 20) productIds in rank order, and
\* for a following query that mentions "those products" the heuristic planner
\* emits exactly one step, a timeseries step over those ids.
C23_ThoseProductsFollowTopProducts ==
  /\ SelectedAreFirstTwenty
  /\ (/\ lastCall.op = "plan"
      /\ TopIdsOf(lastCall.after.toolCalls) # <<>>
      /\ MentionsThose(lastCall.input.query)) =>
       IsTimeseriesOver(lastCall.result.plan, FirstTwenty(TopIdsOf(lastCall.after.toolCalls)))

\* The second half of C23 for the following queries that do not ask why a
\* metric dropped week over week.
ThoseProductsUnlessWhyDrop ==
  (/\ lastCall.op = "plan"
   /\ TopIdsOf(lastCall.after.toolCalls) # <<>>
   /\ MentionsThose(lastCall.input.query)
   /\ ~(/\ Includes(ToLowerCase(lastCall.input.query), "wow")
        /\ Includes(ToLowerCase(lastCall.input.query), "drop")
        /\ Includes(ToLowerCase(lastCall.input.query), "why"))) =>
    IsTimeseriesOver(lastCall.result.plan, FirstTwenty(TopIdsOf(lastCall.after.toolCalls)))

\* A run on a dataset of more than 20 products has selected 20 of them, and
\* the plan of "traffic for those products" is one timeseries step over them.
TwentySelectedAndPlanned ==
  /\ lastCall.op = "plan"
  /\ Len(TopIdsOf(lastCall.after.toolCalls)) > 20
  /\ Len(lastCall.after.sessionState[1]) = 20
  /\ lastCall.input.query = QThose
  /\ IsTimeseriesOver(lastCall.result.plan, lastCall.after.sessionState[1])

\* After a run that selected two products, the plan of "why did traffic for
\* those products drop wow" is six top_products steps.
WhyDropPlanAfterSelection ==
  /\ lastCall.op = "plan"
  /\ lastCall.after.sessionState = Some(<<Str("p1"), Str("p2")>>)
  /\ lastCall.input.query = QWhyThose
  /\ Len(lastCall.result.plan.steps) = 6
  /\ \A i \in 1..6 : lastCall.result.plan.steps[i].tool = ToolText("top_products")

\* The rows of a summary are those of repeat passes over the steps, in order
RowsOfPasses(rows, steps, repeat) ==
  /\ Len(rows) = repeat * Len(steps)
  /\ \A k \in DOMAIN rows :
       /\ rows[k].stepIndex = k - 1
       /\ rows[k].query = steps[((k - 1) % Len(steps)) + 1]

\* C24: for each config runScenario uses one store for all passes, runs the
\* steps one at a time in scenario order, repeat times, so that the runs of a
\* summary are repeat x number-of-steps rows with stepIndex 0, 1, 2, ..., starts
\* every pass with an empty session and hands each later step the session the
\* previous step of the pass returned.
C24_PassesThreadSession ==
  /\ [][(runScenario.pc \notin {"idle", "config"}) =>
          SubSeq(runs', 1, Len(runs)) = runs]_vars
  /\ [][(runScenario.pc # "idle" /\ runQuery'.n # runQuery.n) =>
          /\ runQuery.pc \in {"idle", "done"}
          /\ runQuery'.params.query = runScenario.opts.steps[runScenario.i]
          /\ runQuery'.params.mode = runScenario.opts.configs[runScenario.c]
          /\ runQuery'.params.session =
               (IF runScenario.i = 1 THEN None ELSE runQuery.session)
          /\ Len(runScenario.rows) =
               runScenario.pass * Len(runScenario.opts.steps) + (runScenario.i - 1)]_vars
  /\ [][(runScenario.pc # "idle" /\ runScenario'.summaries # runScenario.summaries) =>
          /\ Len(runScenario'.summaries) = Len(runScenario.summaries) + 1
          /\ RowsOfPasses(runScenario'.summaries[Len(runScenario'.summaries)].runs,
                          runScenario.opts.steps, runScenario.repeat)
          /\ [k \in DOMAIN runs |-> runs[k].id] =
               [k \in DOMAIN runScenario.rows |-> runScenario.rows[k].runId]]_vars

\* The first step of the second pass is in flight with an empty session,
\* after a first pass whose first step selected products and whose second
\* step ran one call over them.
C24_Witness ==
  /\ runScenario.pc = "running"
  /\ runScenario.pass = 1
  /\ runScenario.i = 1
  /\ runQuery.params.session = None
  /\ Len(runScenario.rows) = 2
  /\ runScenario.rows[2].query = QThose
  /\ runScenario.rows[2].toolCalls = 1
  /\ Len(runs) = 2

\* The text holds an email address, a phone number or a card number
HasPII(text) == \E i \in DOMAIN text : text[i].c \in EmailSyms \cup PhoneSyms \cup CardSyms

\* No memory item, no row of the index and no answer holds such a value
StoredTextsAndAnswersRedacted ==
  /\ \A r \in memory_items : ~HasPII(r.text) /\ ~HasPII(r.dedupe_key.norm)
  /\ \A f \in memory_fts : ~HasPII(f.text)
  /\ \A k \in DOMAIN runs : runs[k].response = None \/ ~HasPII(runs[k].response[1])
  /\ (runQuery.pc = "done" => ~HasPII(runQuery.responseText[1]))

\* C25: after a run whose query holds an email address, a phone number or a
\* card number, no memory item text, no field of the run record inserted and
\* no responseText holds that value unredacted.
C25_NothingStoredUnredacted ==
  /\ StoredTextsAndAnswersRedacted
  /\ \A k \in DOMAIN runs : ~HasPII(runs[k].query) /\ ~HasPII(runs[k].augmented_query)

\* A run has returned and written its memory items, and the query column of
\* its run record holds the email address of the query.
RunRecordHoldsEmail ==
  /\ runQuery.pc = "done"
  /\ \E r \in memory_items : r.kind \in {"query_pattern", "failure_case"}
  /\ \E k \in DOMAIN runs :
       /\ runs[k].id = runQuery.id
       /\ \E i \in DOMAIN runs[k].query : runs[k].query[i].c \in EmailSyms

(***************************************************************************)
(* The tool cache                                                          *)
(***************************************************************************)
\* The value without the order of its keys.
RECURSIVE Plain(_)
Plain(value) ==
  IF value.t = "keyed"
    THEN JObj([key \in {value.pairs[i].k : i \in DOMAIN value.pairs} |->
                 Plain(value.pairs[CHOOSE i \in DOMAIN value.pairs : value.pairs[i].k = key].v)])
  ELSE IF value.t = "arr" THEN JArr([i \in DOMAIN value.a |-> Plain(value.a[i])])
  ELSE value

\* Two values are JSON-equivalent: equal but for the order of object keys.
JsonEquivalent(a, b) == Plain(a) = Plain(b)

\* The setToolCache calls of the log on a signature, as positions.
SetsOn(log, signature) == {i \in DOMAIN log : log[i].signature = signature}

LastOf(set) == CHOOSE m \in set : \A other \in set : other <= m

\* What getToolCache returned is what the log says: null for a signature
\* never set, otherwise a result JSON-equivalent to the last one set on it.
ReturnedLastSet(call) ==
  IF SetsOn(call.log, call.signature) = {} THEN call.returned = None
  ELSE /\ call.returned # None
       /\ JsonEquivalent(call.returned[1].result,
                         call.log[LastOf(SetsOn(call.log, call.signature))].result)

\* A "__proto__" among the own keys of the value, at any depth.
RECURSIVE HasProtoKey(_)
HasProtoKey(value) ==
  IF value.t = "keyed"
    THEN \E i \in DOMAIN value.pairs :
           value.pairs[i].k = "__proto__" \/ HasProtoKey(value.pairs[i].v)
  ELSE IF value.t = "arr" THEN \E i \in DOMAIN value.a : HasProtoKey(value.a[i])
  ELSE FALSE

\* C26: after setToolCache(tool, sig, args, result), getToolCache(sig)
\* returns a result JSON-equivalent to result; a later setToolCache on the
\* same signature replaces the stored result; getToolCache of a signature
\* that was never set returns null.
C26_CacheReturnsLastSet ==
  lastCall.op = "getToolCache" => ReturnedLastSet(lastCall)

\* The same for the results that have no own key "__proto__".
CacheReturnsLastSetButProto ==
  (/\ lastCall.op = "getToolCache"
   /\ \A i \in SetsOn(lastCall.log, lastCall.signature) : ~HasProtoKey(lastCall.log[i].result))
    => ReturnedLastSet(lastCall)

\* getToolCache after two setToolCache on its signature with results that
\* are not equivalent.
SecondSetReturned ==
  /\ lastCall.op = "getToolCache"
  /\ Cardinality(SetsOn(lastCall.log, lastCall.signature)) = 2
  /\ ~JsonEquivalent(lastCall.log[1].result, lastCall.log[2].result)
  /\ ~HasProtoKey(lastCall.log[2].result)
  /\ ReturnedLastSet(lastCall)

\* getToolCache of a signature never set, with another one in the cache.
NeverSetReturnedNull ==
  /\ lastCall.op = "getToolCache"
  /\ lastCall.log # <<>>
  /\ SetsOn(lastCall.log, lastCall.signature) = {}
  /\ lastCall.returned = None

\* The result with the own key "__proto__" comes back without it.
ProtoKeyLost ==
  /\ lastCall.op = "getToolCache"
  /\ lastCall.returned # None
  /\ \E i \in DOMAIN lastCall.log :
       /\ i = LastOf(SetsOn(lastCall.log, lastCall.signature))
       /\ HasProtoKey(lastCall.log[i].result)
       /\ ~HasProtoKey(lastCall.returned[1].result)
       /\ ~JsonEquivalent(lastCall.returned[1].result, lastCall.log[i].result)

\* Two logged calls for the same tool and namespace whose args differ only
\* in the order of object keys.
SameButKeyOrder(a, b) ==
  /\ a.tool = b.tool
  /\ a.namespace = b.namespace
  /\ a.args # b.args
  /\ JsonEquivalent(a.args, b.args)

\* C27: for any tool and namespace, two args values that differ only in the
\* order of object keys, at any nesting depth, produce the same
\* toolSignature, of the form <tool>:<hex>; calls with such args share one
\* tool-cache entry.
C27_KeyOrderSameSignature ==
  \A i, j \in DOMAIN CacheLog :
    SameButKeyOrder(CacheLog[i], CacheLog[j])
      => /\ CacheLog[i].signature = CacheLog[j].signature
         /\ CacheLog[i].signature.tool = CacheLog[i].tool
         /\ Cardinality({row \in tool_cache :
                           row.signature \in {CacheLog[i].signature, CacheLog[j].signature}}) = 1

\* Two calls whose args differ in the key order of the inner object too have
\* written one cache entry.
C27_Witness ==
  /\ Len(CacheLog) = 2
  /\ {CacheLog[1].args, CacheLog[2].args} = {ArgsNested, ArgsNestedSwapped}
  /\ SameButKeyOrder(CacheLog[1], CacheLog[2])
  /\ CacheLog[1].signature = CacheLog[2].signature
  /\ Cardinality(tool_cache) = 1

(***************************************************************************)
(* Scopes and kinds of what is retrieved                                   *)
(***************************************************************************)
\* The kind set of each stage, as stated.
SaidKinds(stage) ==
  CASE stage = "manager_route" -> {"domain_rule", "query_pattern", "user_preference"}
    [] stage = "workflow_plan" ->
         {"domain_rule", "query_pattern", "user_preference", "tool_template", "failure_case"}
    [] stage = "insight_generate" ->
         {"insight_pattern", "user_preference", "domain_rule", "failure_case", "query_pattern"}

ItemOf(id) == CHOOSE r \in memory_items : r.id = id

\* Every hit of the last searchMemory is an item of a scope passed in and,
\* kinds being passed, of one of those kinds.
HitsWithinScopes(call) ==
  \A i \in DOMAIN call.hits :
    /\ ItemOf(call.hits[i]).scope \in SeqToSet(call.opts.scopes)
    /\ call.opts.kinds # <<>> => ItemOf(call.hits[i]).kind \in SeqToSet(call.opts.kinds)

\* Every card of the last retrieve is that of an item of a scope passed in,
\* global or the user's own, and of a kind of the stage.
CardsWithinScopes(call) ==
  \A i \in DOMAIN call.cards :
    /\ call.cards[i].scope = ItemOf(call.cards[i].id).scope
    /\ call.cards[i].kind = ItemOf(call.cards[i].id).kind
    /\ call.cards[i].scope \in SeqToSet(call.scopes)
    /\ call.cards[i].scope \in {"global", "user:" \o call.userId}
    /\ call.cards[i].kind \in SaidKinds(call.stage)

\* C28: every hit returned by searchMemory, and so every card returned by
\* Leverager.retrieve, belongs to an item whose scope is one of the scopes
\* passed in and whose kind is in the stage's kind set; a run for user u
\* never injects a card scoped to another user.
C28_HitsWithinScopesAndKinds ==
  /\ lastCall.op = "searchMemory" => HitsWithinScopes(lastCall)
  /\ (lastCall.op = "retrieve" /\ ~lastCall.threw) => CardsWithinScopes(lastCall)

\* The same for the searches that pass at least one scope.
WithinScopesWhenSome ==
  /\ (lastCall.op = "searchMemory" /\ lastCall.opts.scopes # <<>>)
       => HitsWithinScopes(lastCall)
  /\ (lastCall.op = "retrieve" /\ ~lastCall.threw) => CardsWithinScopes(lastCall)

\* searchMemory called without scopes returned a global item.
GlobalHitWithoutScopes ==
  /\ lastCall.op = "searchMemory"
  /\ lastCall.opts.scopes = <<>>
  /\ \E i \in DOMAIN lastCall.hits : ItemOf(lastCall.hits[i]).scope = "global"

\* retrieve for one user returned a card while the store held an item of the
\* other user and one of a kind the stage leaves out.
OtherUsersItemLeftOut ==
  /\ lastCall.op = "retrieve"
  /\ lastCall.cards # <<>>
  /\ \E r \in memory_items :
       r.scope \notin SeqToSet(lastCall.scopes) \/ r.kind \notin SaidKinds(lastCall.stage)
  /\ CardsWithinScopes(lastCall)

(***************************************************************************)
(* The manager's decision                                                  *)
(***************************************************************************)
\* The query, whatever its case, contains the word (inside a longer word
\* too).
Contains(query, word) == Includes(ToLowerCase(query), word)

\* The analytics keywords: a metric or period word, or "top" and a number.
HasAnalyticsKeyword(query) ==
  \/ \E w \in {"sales", "revenue", "units", "sessions", "traffic", "conversion", "benchmark",
                "month", "week", "yoy", "mom", "wow"} : Contains(query, w)
  \/ TopNumber(ToLowerCase(query)) # None

HasBlackListed(query) ==
  \E w \in {"weather", "recipe", "love", "movie", "music", "politics", "medical"} :
    Contains(query, w)

HasInsightWord(query) ==
  \E w \in {"why", "perform", "benchmark", "recommend", "improve", "diagnostic", "compare",
             "insight"} : Contains(query, w)

\* The decision as stated.
SaidDecision(query) ==
  IF ~HasAnalyticsKeyword(query) \/ HasBlackListed(query)
    THEN [ood |-> TRUE, route |-> None]
  ELSE IF HasInsightWord(query) THEN [ood |-> FALSE, route |-> Some("insight_generator")]
  ELSE [ood |-> FALSE, route |-> Some("data_presenter")]

\* C29: ManagerAgent.decide returns the heuristic decision for every query
\* and never calls the LLM, with or without an LLM configured: ood exactly
\* when the query lacks every analytics keyword or contains a black-listed
\* word; otherwise route insight_generator exactly when the query contains
\* one of why, perform, benchmark, recommend, improve, diagnostic, compare,
\* insight, and data_presenter otherwise; a decision with ood=false always
\* carries a route.
C29_DecisionIsHeuristic ==
  lastCall.op = "decide"
    => /\ ~lastCall.asked
       /\ lastCall.decision = SaidDecision(lastCall.query)
       /\ ~lastCall.decision.ood => lastCall.decision.route # None

\* An LLM is configured and would route the query the other way; the
\* decision is the heuristic's, in scope.
C29_Witness ==
  /\ lastCall.op = "decide"
  /\ lastCall.llm
  /\ lastCall.completion # None
  /\ lastCall.completion[1] # lastCall.decision
  /\ lastCall.decision = [ood |-> FALSE, route |-> Some("insight_generator")]
  /\ ~lastCall.asked

\* Every kind of decision comes out: out of scope for want of a keyword and
\* for a black-listed word next to one, and both routes.
EveryDecisionMade ==
  /\ lastCall.op = "decide"
  /\ lastCall.query = QSalesWeather
  /\ lastCall.decision.ood
  /\ decide(TRUE, QCompareInsights, None).ood
  /\ decide(TRUE, QTopProducts, None).ood
  /\ decide(TRUE, QTop2, None).route = Some("data_presenter")
  /\ decide(TRUE, QWeeksInsights, None).route = Some("insight_generator")
  /\ decide(TRUE, QWhyRevenue, None).route = Some("insight_generator")

(***************************************************************************)
(* The memory effect with the fake LLM                                     *)
(***************************************************************************)
\* runScenario was called by the runner of the baseline-confused client with
\* the single step, configs baseline and read, repeat 1.
IsMemoryEffectScenario ==
  /\ runScenario.pc # "idle"
  /\ runScenario.cfg.fake = "baseline-confused"
  /\ runScenario.opts.steps = <<QSalesTop10>>
  /\ runScenario.opts.configs = <<"baseline", "read">>
  /\ runScenario.opts.repeat = Some(1)

\* The ratio a is greater than the ratio b.
Greater(a, b) == a.num * b.den > b.num * a.den

\* The cards the planner of the run in flight was passed.
PlannerCards == runQuery.passed.planner[1]

\* C30: with a planner LLM that picks the wrong metric unless a memory card
\* is in its prompt, the single step "What were the sales for my top 10
\* products last month?" run once under baseline and once under read yields
\* avgQuality(read) strictly greater than avgQuality(baseline): under read
\* the seeded global domain_rule is retrieved and injected into the planner
\* prompt, under baseline nothing is.
C30_ReadBeatsBaseline ==
  IsMemoryEffectScenario
    => /\ (runScenario.pc = "running" /\ runQuery.pc \in {"execute", "respond", "evaluate",
                                                           "record", "done"})
            => (IF runQuery.params.mode = "read"
                  THEN \E i \in DOMAIN PlannerCards :
                         /\ PlannerCards[i].id = "domain_rule_calendar_week"
                         /\ PlannerCards[i].kind = "domain_rule"
                         /\ PlannerCards[i].scope = "global"
                  ELSE PlannerCards = <<>>)
       /\ runScenario.pc = "returned"
            => /\ Len(runScenario.summaries) = 2
               /\ runScenario.summaries[1].aggregate.avgQuality # None
               /\ runScenario.summaries[2].aggregate.avgQuality # None
               /\ Greater(runScenario.summaries[2].aggregate.avgQuality[1],
                          runScenario.summaries[1].aggregate.avgQuality[1])

\* The scenario has returned its two summaries, one scored run each, planned
\* by the LLM with units under baseline and with sales under read.
C30_Witness ==
  /\ IsMemoryEffectScenario
  /\ runScenario.pc = "returned"
  /\ \A c \in 1..2 : Len(runScenario.summaries[c].runs) = 1
  /\ runScenario.summaries[1].config = "baseline"
  /\ runScenario.summaries[2].config = "read"
  /\ ~runQuery.usedFallback
  /\ runQuery.plan[1].steps[1].args[1].o.metric = JStr(Str("sales"))
  /\ runScenario.summaries[1].runs[1].scores[1].relevance = 400
  /\ runScenario.summaries[2].runs[1].scores[1].relevance = 1000


(***************************************************************************)
(* C31: the scores of a top_products call that matches the expected one.   *)
(***************************************************************************)
\* The top_products spec of the evaluated query, as an option
TopProductsSpecOf(query, today) ==
  LET spec == inferEvalSpec(query, today)
  IN IF spec # None /\ spec[1].type = "top_products" THEN spec ELSE None

\* The rows of the canonical top_products tool under the spec
ExpectedRows(spec) ==
  topProducts([metric |-> JStr(spec.metric), startDate |-> JStr(spec.range.startDate),
               endDate |-> JStr(spec.range.endDate), limit |-> JNum(spec.limit)])

\* The evaluated run's first top_products call has the metric and the dates
\* of the spec, and its rows are, rank by rank, those of the canonical tool.
CallMatchesSpec(spec, toolCalls) ==
  LET call == FindCall(toolCalls, "top_products")
  IN /\ call # None
     /\ ArgsMatch(call[1].args, spec.metric, spec.range)
     /\ ArrayOf(call[1].result, "rows") = Some(ExpectedRows(spec))

EvaluatedMatchingCall ==
  /\ lastCall.op = "evaluate"
  /\ TopProductsSpecOf(lastCall.query, lastCall.today) # None
  /\ CallMatchesSpec(TopProductsSpecOf(lastCall.query, lastCall.today)[1], lastCall.toolCalls)

PerfectScores(scores) ==
  /\ scores # None
  /\ scores[1].correctness = 1000 /\ scores[1].completeness = 1000
  /\ scores[1].relevance = 1000 /\ scores[1].quality > 950

\* C31: when the query yields a top_products spec and the run's first
\* top_products call has the spec's metric and dates and the rows of the
\* canonical tool, rank by rank, evaluate returns correctness, completeness
\* and relevance 1 and a quality above 0.95.
C31_PerfectWhenCallMatches ==
  EvaluatedMatchingCall => PerfectScores(lastCall.scores)

\* The part of C31 that holds: the scores are perfect when the canonical tool
\* has as many rows as the spec's limit.
PerfectWhenFullList ==
  (/\ EvaluatedMatchingCall
   /\ Len(ExpectedRows(TopProductsSpecOf(lastCall.query, lastCall.today)[1]))
        = TopProductsSpecOf(lastCall.query, lastCall.today)[1].limit)
    => PerfectScores(lastCall.scores)

\* A matching call over a full list has been scored.
FullListScored ==
  /\ EvaluatedMatchingCall
  /\ Len(ExpectedRows(TopProductsSpecOf(lastCall.query, lastCall.today)[1]))
       = TopProductsSpecOf(lastCall.query, lastCall.today)[1].limit
  /\ PerfectScores(lastCall.scores)

\* A matching call has been scored whose rows are fewer than the limit of
\* the spec: the completeness is below 1.
ShortListIncomplete ==
  /\ EvaluatedMatchingCall
  /\ ExpectedRows(TopProductsSpecOf(lastCall.query, lastCall.today)[1]) # <<>>
  /\ lastCall.scores[1].correctness = 1000 /\ lastCall.scores[1].relevance = 1000
  /\ lastCall.scores[1].completeness < 1000

\* A matching call has been scored over a range without orders: the scores
\* are those of the empty result.
EmptyListScoredLow ==
  /\ EvaluatedMatchingCall
  /\ ExpectedRows(TopProductsSpecOf(lastCall.query, lastCall.today)[1]) = <<>>
  /\ lastCall.scores[1].correctness = 0 /\ lastCall.scores[1].relevance = 200
  /\ lastCall.scores[1].quality = 70


(***************************************************************************)
(* The score of a hit                                                      *)
(***************************************************************************)
\* Two calls of scoreHit at the same instant whose hits agree on every
\* ranking signal but the one named
TwoScored ==
  /\ lastCall.op = "scoreHit" /\ lastCall.before # None
  /\ lastCall.before[1].nowMs = lastCall.nowMs

AgreeBut(signal) ==
  /\ TwoScored
  /\ \A s \in {"ftsRank", "lastUsedAt", "importance", "useCount"} \ {signal} :
       lastCall.before[1].hit[s] = lastCall.hit[s]
  /\ lastCall.before[1].hit[signal] # lastCall.hit[signal]

\* nowMs - lastUsedMs of a hit whose lastUsedAt is a date
AgeSince(hit, nowMs) == nowMs - hit.lastUsedAt[1]

\* C32: of two hits that differ in one ranking signal only, the one with the
\* higher ftsRank, importance or useCount has an equal or higher score, and
\* the one with the larger age since lastUsedAt an equal or lower score.
C32_ScoreMonotone ==
  /\ \A s \in {"ftsRank", "importance", "useCount"} :
       (AgreeBut(s) /\ lastCall.hit[s] > lastCall.before[1].hit[s])
         => lastCall.score >= lastCall.before[1].score
  /\ (/\ AgreeBut("lastUsedAt")
      /\ lastCall.hit.lastUsedAt # None /\ lastCall.before[1].hit.lastUsedAt # None
      /\ AgeSince(lastCall.hit, lastCall.nowMs)
           > AgeSince(lastCall.before[1].hit, lastCall.nowMs))
       => lastCall.score <= lastCall.before[1].score

\* Two hits were scored that differ in their age only, the older one lower;
\* one of the two was last used after now.
C32_Witness ==
  /\ AgreeBut("lastUsedAt")
  /\ lastCall.hit.lastUsedAt # None /\ lastCall.before[1].hit.lastUsedAt # None
  /\ AgeSince(lastCall.before[1].hit, lastCall.nowMs) < 0
  /\ AgeSince(lastCall.hit, lastCall.nowMs) > 0
  /\ lastCall.score < lastCall.before[1].score

\* Two hits were scored that differ in their rank only, the rank of one
\* being negative: its score is the lower one.
NegativeRankScoredLower ==
  /\ AgreeBut("ftsRank")
  /\ lastCall.hit.ftsRank < 0 /\ lastCall.before[1].hit.ftsRank > 0
  /\ lastCall.score < lastCall.before[1].score

\* Two hits were scored that differ in their use count only.
MoreUsedScoredHigher ==
  /\ AgreeBut("useCount")
  /\ lastCall.hit.useCount > lastCall.before[1].hit.useCount
  /\ lastCall.score > lastCall.before[1].score


(***************************************************************************)
(* The rows and the aggregates of a scenario                               *)
(***************************************************************************)
\* Every list of rows the runner holds: the one in progress and those of the
\* summaries made so far
RowLists ==
  (IF runScenario.pc = "idle" THEN {}
   ELSE {runScenario.rows}
          \cup {runScenario.summaries[k].runs : k \in DOMAIN runScenario.summaries})
  \cup (IF lastCall.op = "aggregate" THEN {lastCall.rows, lastCall.summary.runs} ELSE {})

\* Every summary made so far
SummariesMade ==
  (IF runScenario.pc = "idle" THEN {}
   ELSE {runScenario.summaries[k] : k \in DOMAIN runScenario.summaries})
  \cup (IF lastCall.op = "aggregate" THEN {lastCall.summary} ELSE {})

\* correctness, completeness and relevance are all above 0.8
AllAboveEightTenths(scores) ==
  scores.correctness > 800 /\ scores.completeness > 800 /\ scores.relevance > 800

\* C33: a recorded step with scores has questionLevelAcc true exactly when
\* correctness, completeness and relevance are all strictly above 0.8; a step
\* without scores has questionLevelAcc null and does not count in
\* questionLevelAccRate.
C33_QuestionLevelAcc ==
  /\ \A rows \in RowLists : \A k \in DOMAIN rows :
       IF rows[k].scores = None THEN rows[k].questionLevelAcc = None
       ELSE rows[k].questionLevelAcc = Some(AllAboveEightTenths(rows[k].scores[1]))
  /\ \A summary \in SummariesMade :
       LET rows == summary.runs
           scored == {j \in DOMAIN rows : rows[j].scores # None}
           good == {j \in scored : AllAboveEightTenths(rows[j].scores[1])}
       IN summary.aggregate.questionLevelAccRate
            = IF scored = {} THEN None
              ELSE Some([num |-> Cardinality(good), den |-> Cardinality(scored)])

\* A summary was made of a step without scores and a scored step: the rate
\* counts the scored one only.
C33_Witness ==
  /\ runScenario.pc # "idle"
  /\ \E k \in DOMAIN runScenario.summaries :
       LET rows == runScenario.summaries[k].runs
       IN /\ \E j \in DOMAIN rows : rows[j].scores = None /\ rows[j].questionLevelAcc = None
          /\ \E j \in DOMAIN rows : rows[j].scores # None
          /\ runScenario.summaries[k].aggregate.questionLevelAccRate # None
          /\ runScenario.summaries[k].aggregate.questionLevelAccRate[1].den
               < Len(rows)

\* A summary holds a scored step that is not accurate: the rate is below 1.
InaccurateStepCounted ==
  /\ runScenario.pc # "idle"
  /\ \E k \in DOMAIN runScenario.summaries :
       LET rows == runScenario.summaries[k].runs
           rate == runScenario.summaries[k].aggregate.questionLevelAccRate
       IN /\ \E j \in DOMAIN rows : rows[j].questionLevelAcc = Some(FALSE)
          /\ rate # None /\ rate[1].num < rate[1].den

\* A summary holds an accurate step: the rate is above 0.
AccurateStepCounted ==
  /\ runScenario.pc # "idle"
  /\ \E k \in DOMAIN runScenario.summaries :
       LET rows == runScenario.summaries[k].runs
           rate == runScenario.summaries[k].aggregate.questionLevelAccRate
       IN /\ \E j \in DOMAIN rows : rows[j].questionLevelAcc = Some(TRUE)
          /\ rate # None /\ rate[1].num > 0


\* The number of latencies below v, and of those at or below v
Below(values, v) == Cardinality({j \in DOMAIN values : values[j] < v})
AtOrBelow(values, v) == Cardinality({j \in DOMAIN values : values[j] <= v})

\* v is the element at the zero-based index idx of values sorted ascending
IsAtSortedIndex(values, idx, v) == Below(values, v) <= idx /\ idx < AtOrBelow(values, v)

LatenciesOf(rows) == [k \in DOMAIN rows |-> rows[k].latencyMs]

\* C34: p90LatencyMs is the element at index floor((n - 1) * 0.9) of the n >= 1
\* step latencies sorted ascending and null when there is none, and the
\* recorded runs keep their order.
C34_P90IsSortedElement ==
  lastCall.op = "aggregate" =>
    /\ lastCall.summary.runs = lastCall.rows
    /\ IF lastCall.rows = <<>> THEN lastCall.summary.aggregate.p90LatencyMs = None
       ELSE /\ lastCall.summary.aggregate.p90LatencyMs # None
            /\ IsAtSortedIndex(LatenciesOf(lastCall.rows),
                               ((Len(lastCall.rows) - 1) * 9) \div 10,
                               lastCall.summary.aggregate.p90LatencyMs[1])

\* Three steps were aggregated whose latencies are not in order: the p90 is
\* the middle one of the three, which is not the second recorded, and the runs
\* are in the order recorded.
C34_Witness ==
  /\ lastCall.op = "aggregate"
  /\ Len(lastCall.rows) = 3
  /\ LatenciesOf(lastCall.rows) = <<2, 0, 1>>
  /\ lastCall.summary.aggregate.p90LatencyMs = Some(1)
  /\ LatenciesOf(lastCall.summary.runs) = <<2, 0, 1>>

\* No step was aggregated: the p90 is null.
NoStepNoP90 ==
  /\ lastCall.op = "aggregate"
  /\ lastCall.rows = <<>>
  /\ lastCall.summary.aggregate.p90LatencyMs = None


\* A step whose correctness is 0.8 was aggregated with a step whose scores
\* are just above: the first is not accurate, and the rate is one half.
BoundaryStepInaccurate ==
  /\ lastCall.op = "aggregate"
  /\ Len(lastCall.rows) = 2
  /\ lastCall.rows[1].scores # None /\ lastCall.rows[1].scores[1].correctness = 800
  /\ lastCall.rows[1].questionLevelAcc = Some(FALSE)
  /\ lastCall.rows[2].questionLevelAcc = Some(TRUE)
  /\ lastCall.summary.aggregate.questionLevelAccRate = Some([num |-> 1, den |-> 2])


(***************************************************************************)
(* The time context                                                        *)
(***************************************************************************)
\* The ISO text of a civil date
FourDigits(y) ==
  (IF y < 10 THEN "000" ELSE IF y < 100 THEN "00" ELSE IF y < 1000 THEN "0" ELSE "")
    \o ToString(y)
IsoOf(y, m, d) ==
  FourDigits(y) \o "-" \o (IF m < 10 THEN "0" ELSE "") \o ToString(m) \o "-"
    \o (IF d < 10 THEN "0" ELSE "") \o ToString(d)
IsoOfDays(days) == IsoOf(CivilFromDays(days).y, CivilFromDays(days).m, CivilFromDays(days).d)

\* The Monday on or before a day; 1970-01-05, day 4, was a Monday
MondayOnOrBefore(days) == CHOOSE w \in (days - 6)..days : (w - 4) % 7 = 0

\* The month before the month m of the year y
MonthBefore(y, m) == IF m = 1 THEN [y |-> y - 1, m |-> 12] ELSE [y |-> y, m |-> m - 1]

\* The context the claim describes for a day
DescribedContext(day) ==
  LET monday == MondayOnOrBefore(DaysFromCivil(day.y, day.m, day.d))
      before == MonthBefore(day.y, day.m)
  IN [thisWeekStart |-> IsoOfDays(monday), thisWeekEnd |-> IsoOfDays(monday + 6),
      lastWeekStart |-> IsoOfDays(monday - 7), lastWeekEnd |-> IsoOfDays(monday - 1),
      thisMonthStart |-> IsoOf(day.y, day.m, 1),
      thisMonthEnd |-> IsoOf(day.y, day.m, DaysInMonth(day.y, day.m)),
      lastMonthStart |-> IsoOf(before.y, before.m, 1),
      lastMonthEnd |-> IsoOf(before.y, before.m, DaysInMonth(before.y, before.m))]

\* C35: for every valid date today, getTimeContext returns the Monday on or
\* before today and the Sunday six days later as this week, the seven days
\* before that Monday as last week, the calendar month of today as this
\* month and the calendar month before it as last month; for 2026-02-04 the
\* last month is 2026-01-01..2026-01-31 and this week 2026-02-02..2026-02-08.
C35_TimeContextOfEveryDate ==
  lastCall.op = "getTimeContext" =>
    /\ lastCall.ctx = DescribedContext(lastCall.day)
    /\ lastCall.day = [y |-> 2026, m |-> 2, d |-> 4] =>
         /\ lastCall.ctx.lastMonthStart = "2026-01-01"
         /\ lastCall.ctx.lastMonthEnd = "2026-01-31"
         /\ lastCall.ctx.thisWeekStart = "2026-02-02"
         /\ lastCall.ctx.thisWeekEnd = "2026-02-08"

\* The part of C35 that holds: the context is the described one for the days
\* from the year 1000 on, once its last month is in that year or later.
TimeContextFromYear1000 ==
  (/\ lastCall.op = "getTimeContext"
   /\ MonthBefore(lastCall.day.y, lastCall.day.m).y >= 1000)
    => /\ lastCall.ctx = DescribedContext(lastCall.day)
       /\ lastCall.day = [y |-> 2026, m |-> 2, d |-> 4] =>
            /\ lastCall.ctx.lastMonthStart = "2026-01-01"
            /\ lastCall.ctx.lastMonthEnd = "2026-01-31"
            /\ lastCall.ctx.thisWeekStart = "2026-02-02"
            /\ lastCall.ctx.thisWeekEnd = "2026-02-08"

\* getTimeContext has returned for 2026-02-04.
TestDayContext ==
  /\ lastCall.op = "getTimeContext"
  /\ lastCall.day = [y |-> 2026, m |-> 2, d |-> 4]
  /\ lastCall.ctx.thisWeekStart = "2026-02-02"
  /\ lastCall.ctx.lastWeekEnd = "2026-02-01"
  /\ lastCall.ctx.thisMonthEnd = "2026-02-28"

\* getTimeContext has returned for a day of the year 50: the context is that
\* of the year 1950.
Year50TakenFor1950 ==
  /\ lastCall.op = "getTimeContext"
  /\ lastCall.day = [y |-> 50, m |-> 6, d |-> 15]
  /\ lastCall.ctx.thisMonthStart = "1950-06-01"
  /\ lastCall.ctx.lastMonthEnd = "1950-05-31"

\* getTimeContext has returned for a day of the year 999: the year of its
\* dates has three digits.
Year999NotPadded ==
  /\ lastCall.op = "getTimeContext"
  /\ lastCall.day = [y |-> 999, m |-> 6, d |-> 15]
  /\ lastCall.ctx.thisMonthStart = "999-06-01"

\* The dates of the model's three days of runs are those of the computation.
TimeContextOfRunDays ==
  lastCall.op = "getTimeContext" =>
    \A t \in {"2025-01-15", "2025-01-19", "2026-02-04"} :
      lastCall.day = [y |-> IF t = "2026-02-04" THEN 2026 ELSE 2025,
                      m |-> IF t = "2026-02-04" THEN 2 ELSE 1,
                      d |-> IF t = "2026-02-04" THEN 4 ELSE IF t = "2025-01-15" THEN 15 ELSE 19]
        => \A f \in DOMAIN lastCall.ctx : Str(lastCall.ctx[f]) = getTimeContext(t)[f]


(***************************************************************************)
(* The rank of a hit                                                       *)
(***************************************************************************)
\* rank is 1 / (1 + bm25): Infinity when 1 + bm25 is 0, and otherwise the
\* quotient in thousandths, cut towards 0
IsQuotient(rank, bm25) ==
  IF 1000 + bm25 = 0 THEN rank = Infinity
  ELSE /\ rank # Infinity
       /\ (rank * (1000 + bm25) - 1000 * 1000) < Max(1000 + bm25, 0 - (1000 + bm25))
       /\ (1000 * 1000 - rank * (1000 + bm25)) < Max(1000 + bm25, 0 - (1000 + bm25))

RankedHitsReturned == lastCall.op = "searchMemory" /\ "ranked" \in DOMAIN lastCall

\* C36: every hit of searchMemory has ftsRank = 1 / (1 + bm25), and the rank
\* is above 0 and at most 1.
C36_RankInUnitInterval ==
  RankedHitsReturned =>
    \A i \in DOMAIN lastCall.ranked :
      /\ IsQuotient(lastCall.ranked[i].ftsRank, lastCall.ranked[i].bm25)
      /\ 0 < lastCall.ranked[i].ftsRank /\ lastCall.ranked[i].ftsRank <= 1000

\* The part of C36 that holds: the rank is the quotient.
RankIsQuotient ==
  RankedHitsReturned =>
    \A i \in DOMAIN lastCall.ranked :
      IsQuotient(lastCall.ranked[i].ftsRank, lastCall.ranked[i].bm25)

\* The engine's bm25 of a matching row being below 0, no rank is in (0, 1].
NoRankInUnitInterval ==
  RankedHitsReturned =>
    \A i \in DOMAIN lastCall.ranked :
      lastCall.ranked[i].ftsRank > 1000 \/ lastCall.ranked[i].ftsRank < 0

\* A search has returned a hit whose rank is above 1 and a hit whose rank is
\* below 0.
RanksAboveOneAndBelowZero ==
  /\ RankedHitsReturned
  /\ \E i \in DOMAIN lastCall.ranked :
       lastCall.ranked[i].ftsRank > 1000 /\ lastCall.ranked[i].ftsRank # Infinity
  /\ \E i \in DOMAIN lastCall.ranked : lastCall.ranked[i].ftsRank < 0

\* A search has returned a hit whose bm25 is -1: its rank is Infinity.
InfiniteRank ==
  /\ RankedHitsReturned
  /\ \E i \in DOMAIN lastCall.ranked :
       lastCall.ranked[i].bm25 = 0 - 1000 /\ lastCall.ranked[i].ftsRank = Infinity


(***************************************************************************)
(* The order of the heuristic planner's rules                              *)
(***************************************************************************)
\* The planner without an LLM has returned the heuristic plan of its input
HeuristicPlanned == lastCall.op = "plan" /\ lastCall.llm = None

ThoseRuleApplies(input) ==
  MentionsThose(input.query) /\ input.session # None /\ input.session[1] # <<>>

WhyDropRuleApplies(input) ==
  /\ Includes(ToLowerCase(input.query), "why")
  /\ Includes(ToLowerCase(input.query), "drop")
  /\ Includes(ToLowerCase(input.query), "wow")

TopRuleApplies(input) ==
  Includes(ToLowerCase(input.query), "top") /\ Includes(ToLowerCase(input.query), "products")

IsWowPlan(workflow) ==
  /\ Len(workflow.steps) = 6
  /\ \A i \in 1..6 : workflow.steps[i].tool = ToolText("top_products")

IsOneTopProducts(workflow) ==
  Len(workflow.steps) = 1 /\ workflow.steps[1].tool = ToolText("top_products")

IsListOfTwenty(workflow) ==
  /\ Len(workflow.steps) = 1
  /\ workflow.steps[1].tool = ToolText("list_products")
  /\ Get(workflow.steps[1].args[1], "limit") = Some(JNum(20))

\* C37: the heuristic planner applies its rules in the order listed: a query
\* that mentions "those products" with a non-empty selection gets the single
\* timeseries step over the selection even if it also matches why, drop and
\* wow; the six-step week-over-week plan is chosen only when that rule does
\* not apply, then the top products rule, and list_products with limit 20 last.
C37_RulesInListedOrder ==
  HeuristicPlanned =>
    IF ThoseRuleApplies(lastCall.input)
      THEN IsTimeseriesOver(lastCall.result.plan, lastCall.input.session[1])
    ELSE IF WhyDropRuleApplies(lastCall.input) THEN IsWowPlan(lastCall.result.plan)
    ELSE IF TopRuleApplies(lastCall.input) THEN IsOneTopProducts(lastCall.result.plan)
    ELSE IsListOfTwenty(lastCall.result.plan)

\* What holds instead: the week-over-week rule comes first, the rule of
\* "those products" second, then the top products rule and the list.
RulesInSourceOrder ==
  HeuristicPlanned =>
    IF WhyDropRuleApplies(lastCall.input) THEN IsWowPlan(lastCall.result.plan)
    ELSE IF ThoseRuleApplies(lastCall.input)
      THEN IsTimeseriesOver(lastCall.result.plan, lastCall.input.session[1])
    ELSE IF TopRuleApplies(lastCall.input) THEN IsOneTopProducts(lastCall.result.plan)
    ELSE IsListOfTwenty(lastCall.result.plan)

\* The heuristic plan of "why did traffic for those products drop wow" with
\* two products selected is the six-step plan.
WowPlanDespiteSelection ==
  /\ HeuristicPlanned
  /\ ThoseRuleApplies(lastCall.input) /\ WhyDropRuleApplies(lastCall.input)
  /\ IsWowPlan(lastCall.result.plan)

\* The heuristic plan of "traffic for those products" with two products
\* selected is the timeseries step over them, and without a selection the
\* list of twenty.
ThoseRuleChosen ==
  /\ HeuristicPlanned
  /\ ThoseRuleApplies(lastCall.input) /\ ~WhyDropRuleApplies(lastCall.input)
  /\ IsTimeseriesOver(lastCall.result.plan, lastCall.input.session[1])

ListChosenWithoutSelection ==
  /\ HeuristicPlanned
  /\ MentionsThose(lastCall.input.query) /\ ~ThoseRuleApplies(lastCall.input)
  /\ IsListOfTwenty(lastCall.result.plan)


(***************************************************************************)
(* The candidates of an LLM text                                           *)
(***************************************************************************)
\* The number of backslashes that end just before k and begin after j
BackslashesBefore(text, j, k) ==
  Cardinality({n \in 1..(k - j - 1) : \A m \in (k - n)..(k - 1) : text[m] = "\\"})

\* The end of the string that the quote at j opens: the first like quote
\* after it that an even number of backslashes precedes, or past the end of
\* the text when there is none
StringEnd(text, j) ==
  LET ends == {k \in (j + 1)..Len(text) :
                 text[k] = text[j] /\ BackslashesBefore(text, j, k) % 2 = 0}
  IN IF ends = {} THEN Len(text) + 1 ELSE CHOOSE k \in ends : \A l \in ends : k <= l

\* The positions from i on that are outside every quoted string
RECURSIVE OutsideStrings(_, _)
OutsideStrings(text, i) ==
  IF i > Len(text) THEN {}
  ELSE IF text[i] \in {"\"", "'"} THEN OutsideStrings(text, StringEnd(text, i) + 1)
  ELSE {i} \cup OutsideStrings(text, i + 1)

\* The nesting depth after the position i: the braces outside strings are
\* counted, and a closing brace at depth 0 is not
Balance(text, i) ==
  Cardinality({k \in OutsideStrings(text, 1) : k <= i /\ text[k] = "{"})
    - Cardinality({k \in OutsideStrings(text, 1) : k <= i /\ text[k] = "}"})
LowestBalance(text, i) ==
  CHOOSE b \in {Balance(text, k) : k \in 0..i} : \A k \in 0..i : b <= Balance(text, k)
DepthAfter(text, i) == Balance(text, i) - LowestBalance(text, i)

\* The top-level balanced substrings: from an opening brace at depth 0 to the
\* first position after it where the depth is 0 again
TopLevelSpans(text) ==
  {<<s, e>> \in (1..Len(text)) \X (1..Len(text)) :
     /\ s \in OutsideStrings(text, 1) /\ text[s] = "{" /\ DepthAfter(text, s - 1) = 0
     /\ e > s /\ DepthAfter(text, e) = 0
     /\ \A k \in s..(e - 1) : DepthAfter(text, k) > 0}

\* The spans in left-to-right order, as texts
RECURSIVE SpansInOrder(_, _)
SpansInOrder(text, spans) ==
  IF spans = {} THEN <<>>
  ELSE LET first == CHOOSE p \in spans : \A q \in spans : p[1] <= q[1]
       IN <<SubSeq(text, first[1], first[2])>> \o SpansInOrder(text, spans \ {first})

\* C38: extractJsonObjectCandidates returns, from left to right, exactly the
\* top-level brace-balanced substrings of the text, the braces inside single-
\* or double-quoted strings (backslash escapes honoured) not counting; each
\* candidate starts with an opening brace and ends with its closing brace.
C38_CandidatesAreTopLevelObjects ==
  lastCall.op = "extractJsonObjectCandidates" =>
    /\ lastCall.out = SpansInOrder(lastCall.text, TopLevelSpans(lastCall.text))
    /\ \A i \in DOMAIN lastCall.out :
         lastCall.out[i][1] = "{" /\ lastCall.out[i][Len(lastCall.out[i])] = "}"

\* A text whose object holds a string with an escaped quote has given one
\* candidate, the whole text.
C38_Witness ==
  /\ lastCall.op = "extractJsonObjectCandidates"
  /\ lastCall.text = <<"{", "'", "\\", "'", "'", "}">>
  /\ lastCall.out = <<lastCall.text>>

\* A closing brace after an escaped quote is still inside the string: the
\* object is left open and the text has given no candidate.
BraceAfterEscapedQuoteNotCounted ==
  /\ lastCall.op = "extractJsonObjectCandidates"
  /\ lastCall.text = <<"{", "'", "\\", "'", "}", "'">>
  /\ lastCall.out = <<>>

\* A text whose object holds a string with a closing brace in it has given
\* one candidate, the whole text.
BraceInStringKept ==
  /\ lastCall.op = "extractJsonObjectCandidates"
  /\ lastCall.text = <<"{", "\"", "}", "\"", "}">>
  /\ lastCall.out = <<lastCall.text>>

\* A text of two objects has given two candidates, the stray closing brace
\* between them left out.
TwoCandidates ==
  /\ lastCall.op = "extractJsonObjectCandidates"
  /\ lastCall.text = <<"{", "a", "}", "}", "{", "}">>
  /\ lastCall.out = <<<<"{", "a", "}">>, <<"{", "}">>>>

\* A text whose first opening brace is never closed has given no candidate.
UnclosedGivesNone ==
  /\ lastCall.op = "extractJsonObjectCandidates"
  /\ lastCall.text = <<"{", "{", "a", "}">>
  /\ lastCall.out = <<>>


(***************************************************************************)
(* memory_fts against memory_items                                         *)
(***************************************************************************)
\* The rows of memory_fts that carry the id of the item
FtsRowsOf(item) == {f \in memory_fts : f.id = item.id}

\* C39: in every store state memory_fts and memory_items hold the same ids,
\* with exactly one memory_fts row per memory item, whose text, kind and scope
\* are the item's; upsertMemoryItem on both paths and maintenance keep it so,
\* and an item has a row to be found by exactly when it is stored.
C39_FtsMirrorsItems ==
  /\ {f.id : f \in memory_fts} = {r.id : r \in memory_items}
  /\ \A r \in memory_items :
       /\ Cardinality(FtsRowsOf(r)) = 1
       /\ \A f \in FtsRowsOf(r) : f.text = r.text /\ f.kind = r.kind /\ f.scope = r.scope
  /\ Cardinality(memory_fts) = Cardinality(memory_items)

\* An upsert has hit a stored row and changed its text, next to a second row.
C39_Witness ==
  /\ lastCall.op = "upsertMemoryItem"
  /\ ~lastCall.threw
  /\ lastCall.prevText # None
  /\ \E r \in memory_items : r.id = lastCall.id /\ lastCall.prevText # Some(r.text)
  /\ Cardinality(memory_fts) = 2

\* An upsert has inserted a row under a fresh id.
FtsRowInserted ==
  /\ lastCall.op = "upsertMemoryItem"
  /\ ~lastCall.threw
  /\ lastCall.prevText = None
  /\ \E f \in memory_fts : f.id = lastCall.id

\* An upsert has thrown at the INSERT INTO memory_items, the id being taken.
InsertThrewOnTakenId ==
  /\ lastCall.op = "upsertMemoryItem"
  /\ lastCall.threw
  /\ memory_fts # {}

\* maintenance has removed expired rows and left others.
ExpiredRowsRemoved ==
  /\ lastCall.op = "maintenance"
  /\ lastCall.expired > 0
  /\ memory_fts # {}


(***************************************************************************)
(* The selection of a run against the list of its answer                   *)
(***************************************************************************)
\* The top_products records of a run
TopProductsCalls(toolCalls) ==
  {i \in DOMAIN toolCalls : toolCalls[i].tool = "top_products"}

\* The run has stored a selection of its own
SelectionStored ==
  lastCall.op = "run" /\ TopIdsOf(lastCall.toolCalls) # <<>>

\* C40: after a data_presenter run the productIds stored in
\* sessionState.selectedProductIds are those of the ranked list of the
\* response text (the first 20 of them), both taken from the same top_products
\* result, for any plan, plans with more than one top_products step included.
C40_SelectedAreListed ==
  SelectionStored => lastCall.sessionState = Some(FirstTwenty(lastCall.listed))

\* The part of C40 that holds: the selection is that of the list of the
\* answer when the plan has one top_products step.
SelectedAreListedOfOneCall ==
  (SelectionStored /\ Cardinality(TopProductsCalls(lastCall.toolCalls)) = 1) =>
    lastCall.sessionState = Some(FirstTwenty(lastCall.listed))

\* With several top_products steps the selection is that of the first call
\* and the list that of the last.
SelectedOfFirstListedOfLast ==
  lastCall.op = "run" =>
    /\ TopIdsOf(lastCall.toolCalls) # <<>> =>
         lastCall.sessionState = Some(FirstTwenty(TopIdsOf(lastCall.toolCalls)))
    /\ \A i \in TopProductsCalls(lastCall.toolCalls) :
         (\A j \in TopProductsCalls(lastCall.toolCalls) : j <= i) =>
           lastCall.listed = [k \in DOMAIN OrElse(ArrayOf(lastCall.toolCalls[i].result, "rows"), <<>>)
                                |-> ArrayOf(lastCall.toolCalls[i].result, "rows")[1][k].o.productId.s]

\* A run of six top_products steps has selected p1 and p2, the products of
\* its first call, and listed p2 alone, the product of its last.
SelectedNotListed ==
  /\ lastCall.op = "run"
  /\ Cardinality(TopProductsCalls(lastCall.toolCalls)) = 6
  /\ lastCall.sessionState = Some(<<Str("p1"), Str("p2")>>)
  /\ lastCall.listed = <<Str("p2")>>

\* A run of six top_products steps has selected p1 and answered without a
\* list, its last call having returned no row.
SelectedWithoutList ==
  /\ lastCall.op = "run"
  /\ Cardinality(TopProductsCalls(lastCall.toolCalls)) = 6
  /\ lastCall.sessionState = Some(<<Str("p1")>>)
  /\ lastCall.listed = <<>>
  /\ lastCall.responseText = DateRangeHeader(lastCall.plan) \o Str("\n") \o Str("No results.")

\* A run of one top_products step has selected the first 20 of the 21
\* products of its list.
TwentyOfListSelected ==
  /\ lastCall.op = "run"
  /\ Cardinality(TopProductsCalls(lastCall.toolCalls)) = 1
  /\ Len(lastCall.listed) = 21
  /\ lastCall.sessionState = Some(FirstTwenty(lastCall.listed))

====
